---- MODULE Spec2Model ----
(***************************************************************************)
(* Model of the homematicip_local adapter layer:                           *)
(*   - the restore-capable entities (generic_entity.py and the platform    *)
(*     files): exposed state computed from the live data point or from the *)
(*     restored state,                                                     *)
(*   - the MQTT consumer (mqtt.py),                                        *)
(*   - the device-removed cascade (generic_entity.py, event.py, update.py).*)
(* The hahomematic library and the Home Assistant framework are the        *)
(* environment: the data point's validity and value, the persisted last    *)
(* state, the registries and the event loop.                               *)
(***************************************************************************)
EXTENDS Integers, Sequences, FiniteSets, TLC

VARIABLES
    \* ---- one restore-capable entity and its data point
    ent_kind,        \* the platform of the entity (fixed at construction)
    ent_cfg,         \* [hmtype, multiplier, has_translation_key] of the entity
    dp,              \* the wrapped data point: [is_valid, state_uncertain, value, position, tilt, default]
    persisted,       \* what the framework's restore store holds for the entity
    restored_state,  \* HaHomematicGenericRestoreEntity._restored_state
    restored_native_value, \* HaHomematicSensor/Number._restored_native_value
    phase,           \* position inside async_added_to_hass
    valid_at_load,   \* history: is_valid when the initial load returned
    valid_once,      \* history: the data point has been valid after the entity was added
    \* ---- the MQTT consumer
    mqtt_configured, \* hass.data.get("mqtt") is not None
    centrals,        \* MQTTConsumer._centrals (insertion-ordered dict, by name)
    sub_state,       \* MQTTConsumer._sub_state: "None" or "Subscriptions"
    sub_pending,     \* subscribe() calls suspended in async_subscribe_topics
    broker_active,   \* the framework holds an active subscription of the topic
    last_call,       \* the consumer entry point that ran last, and what it issued
    mqtt_msg,        \* the message handled by the last _on_mqtt_msg_receive
    path_events,     \* the data_point_path_event calls that handler made
    \* ---- registries, entities bound to devices, the event loop
    device_registry, \* device ids in the device registry
    entity_registry, \* entity ids in the entity registry
    registry_entry,  \* Entity.registry_entry of each entity
    hm_callbacks,    \* device-removed callbacks registered and not yet fired, per entity
    remove_tasks,    \* scheduled async_remove(force_remove=True) tasks, per entity
    registry_tasks,  \* scheduled registry-removal tasks, per entity
    platform_state,  \* "added" / "removed" per entity
    cb_received,     \* history: device-removed callbacks an entity has handled
    dr_remove_calls, \* history: async_remove_device invocations per device
    last_handler,    \* history: the device-removed handler of the step just taken, the branch it took and what it raised
    \* ---- one entity and the callbacks it holds at its data point(s)
    lc_kind,         \* "generic", "hub", "update" or "event"
    lc_enabled,      \* Entity.enabled
    lc_phase,        \* "constructed", "loading", "added" or "removed"
    lc_callbacks,    \* callbacks registered at the data point(s), per callback kind
    lc_unregister,   \* self._unregister_callbacks, as the kinds of the callbacks
    lc_calls,        \* history: the calls async_added_to_hass has made at the data point(s)
    lc_refreshes,    \* history: async_schedule_update_ha_state calls
    lc_events,       \* history: _trigger_event calls
    lc_removals,     \* history: scheduled async_remove(force_remove=True)
    lc_last,         \* history: the step taken last
    \* ---- the setup of one platform for a config entry
    su_platform,     \* the platform set up
    su_phase,        \* "new", "set_up" or "unloaded"
    su_known,        \* the data points the control unit holds for each drain
    su_connected,    \* categories whose signal is connected to an add-callback
    su_on_unload,    \* categories whose disconnect is registered with the entry
    su_log,          \* history: the steps async_setup_entry has taken, in order
    su_add_calls,    \* history: the batches handed to the add-callbacks
    su_sink,         \* history: the async_add_entities calls, each a list of entities
    su_last,         \* history: the step taken last
    \* ---- one entity and the write method the framework runs on it
    wr_entity,       \* the entity: its kind, its multiplier, its data point's values
    wr_dp,           \* the data point's validity and live value
    wr_frame,        \* the method in progress: how it was reached, its arguments, the calls still to make
    wr_calls,        \* history: the calls the current or last invocation has made, with their outcome
    wr_result,       \* history: how the current or last invocation ended
    \* ---- the MQTTConsumer class and the objects constructed from it
    mc_configured,   \* hass.data.get("mqtt") is not None
    mc_instance,     \* MQTTConsumer._instance: 0 for None, else an object
    mc_objects,      \* the consumer objects: [centrals, sub_state] of each
    mc_returned,     \* history: the object each MQTTConsumer(hass) call returned
    \* ---- the entities constructed for library objects
    id_entities,     \* the entities constructed: [kind, wraps, unique_id, state] of each
    \* ---- the cover add-callback
    cv_data_points,  \* the data points the last run of async_add_cover was given
    cv_sink,         \* the async_add_entities calls that run made
    cv_runs,         \* history: the number of runs so far
    \* ---- one event entity
    ev_channel_events, \* the parameter names of the channel events it wraps
    ev_event_types,  \* HaHomematicEvent._attr_event_types
    ev_enabled,      \* Entity.enabled
    ev_triggered,    \* history: the event types passed to _trigger_event
    ev_last          \* history: the step taken last

restore_vars == <<ent_kind, ent_cfg, dp, persisted, restored_state,
                  restored_native_value, phase, valid_at_load, valid_once>>
mqtt_vars == <<mqtt_configured, centrals, sub_state, sub_pending, broker_active,
               last_call, mqtt_msg, path_events>>
removal_vars == <<device_registry, entity_registry, registry_entry, hm_callbacks,
                  remove_tasks, registry_tasks, platform_state, cb_received,
                  dr_remove_calls, last_handler>>
lifecycle_vars == <<lc_kind, lc_enabled, lc_phase, lc_callbacks, lc_unregister,
                    lc_calls, lc_refreshes, lc_events, lc_removals, lc_last>>
base_vars == <<restore_vars, mqtt_vars, removal_vars>>
setup_vars == <<su_platform, su_phase, su_known, su_connected, su_on_unload,
                su_log, su_add_calls, su_sink, su_last>>
write_vars == <<wr_entity, wr_dp, wr_frame, wr_calls, wr_result>>
consumer_vars == <<mc_configured, mc_instance, mc_objects, mc_returned>>
identity_vars == <<id_entities>>
cover_vars == <<cv_data_points, cv_sink, cv_runs>>
event_vars == <<ev_channel_events, ev_event_types, ev_enabled, ev_triggered, ev_last>>
aux_vars == <<consumer_vars, identity_vars, cover_vars, event_vars>>
ext_vars == <<lifecycle_vars, setup_vars, write_vars, aux_vars>>
vars == <<base_vars, ext_vars>>

\* What the steps of one part leave alone.
not_lifecycle_vars == <<base_vars, setup_vars, write_vars, aux_vars>>
not_setup_vars == <<base_vars, lifecycle_vars, write_vars, aux_vars>>
not_write_vars == <<base_vars, lifecycle_vars, setup_vars, aux_vars>>
core_vars == <<base_vars, lifecycle_vars, setup_vars, write_vars>>
not_consumer_vars == <<core_vars, identity_vars, cover_vars, event_vars>>
not_identity_vars == <<core_vars, consumer_vars, cover_vars, event_vars>>
not_cover_vars == <<core_vars, consumer_vars, identity_vars, event_vars>>
not_event_vars == <<core_vars, consumer_vars, identity_vars, cover_vars>>

-----------------------------------------------------------------------------
\* Python values, tagged by type so that values of different types compare.

NoneV == [t |-> "none", b |-> FALSE, n |-> 0, s |-> ""]
BoolV(x) == [t |-> "bool", b |-> x, n |-> 0, s |-> ""]
IntV(x) == [t |-> "int", b |-> FALSE, n |-> x, s |-> ""]
FloatV(x) == [t |-> "float", b |-> FALSE, n |-> x, s |-> ""]
StrV(x) == [t |-> "str", b |-> FALSE, n |-> 0, s |-> x]

\* str.lower() on the strings the model uses.
Lower(s) ==
    CASE s = "OPEN" -> "open"
      [] s \in {"Closed", "CLOSED"} -> "closed"
      [] s = "AUTO_1" -> "auto_1"
      [] s = "Hello" -> "hello"
      [] s = "PRESS_SHORT" -> "press_short"
      [] s = "PRESS_LONG" -> "press_long"
      [] OTHER -> s

LowerV(v) == IF v.t = "str" THEN StrV(Lower(v.s)) ELSE v

\* x is True
IsTrue(v) == v = BoolV(TRUE)

-----------------------------------------------------------------------------
\* Home Assistant state strings.

STATE_UNKNOWN == "unknown"
STATE_UNAVAILABLE == "unavailable"
STATE_ON == "on"
STATE_CLOSED == "closed"
LOCKED == "locked"

\* HmEntityState
NOT_VALID == "not valid"
RESTORED == "restored"
UNCERTAIN == "uncertain"
VALID == "valid"

-----------------------------------------------------------------------------
\* The restore-capable entity platforms.

StateRestoreKinds ==
    {"binary_sensor", "switch", "lock", "siren", "cover", "select", "text"}
NativeRestoreKinds == {"sensor", "number"}
Kinds == StateRestoreKinds \cup NativeRestoreKinds

Multipliers == {1, 100}

\* hmtype, multiplier and translation key of a sensor or number entity.
EntityCfgs(k) ==
    CASE k = "sensor" ->
           {[hmtype |-> "INTEGER", multiplier |-> m, has_translation_key |-> TRUE] :
                m \in Multipliers}
           \cup {[hmtype |-> "ENUM", multiplier |-> 1, has_translation_key |-> tk] :
                tk \in BOOLEAN}
      [] k = "number" ->
           {[hmtype |-> "INTEGER", multiplier |-> m, has_translation_key |-> TRUE] :
                m \in Multipliers}
      [] OTHER ->
           {[hmtype |-> "NONE", multiplier |-> 1, has_translation_key |-> TRUE]}

Reading(v, p, t) == [value |-> v, position |-> p, tilt |-> t]

\* What the library can report as the live value of a data point.
DpReadings(k, cfg) ==
    CASE k \in {"binary_sensor", "switch", "siren"} ->
           {Reading(v, NoneV, NoneV) : v \in {NoneV, BoolV(TRUE), BoolV(FALSE)}}
      [] k = "lock" ->
           {Reading(BoolV(b), NoneV, NoneV) : b \in BOOLEAN}
      [] k = "cover" ->
           {Reading(BoolV(TRUE), IntV(0), IntV(0)),
            Reading(BoolV(FALSE), IntV(50), IntV(30)),
            Reading(NoneV, NoneV, NoneV)}
      [] k = "select" ->
           {Reading(v, NoneV, NoneV) : v \in {NoneV, StrV("OPEN"), StrV("Closed")}}
      [] k = "text" ->
           {Reading(v, NoneV, NoneV) : v \in {NoneV, StrV("Hello")}}
      [] k = "sensor" /\ cfg.hmtype = "ENUM" ->
           {Reading(v, NoneV, NoneV) : v \in {NoneV, StrV("OPEN")}}
      [] OTHER ->
           {Reading(v, NoneV, NoneV) : v \in {NoneV, IntV(0), IntV(2)}}

\* data_point.default
DpDefaults(k) == IF k = "binary_sensor" THEN {NoneV, BoolV(FALSE)} ELSE {NoneV}

DataPoint(valid, uncertain, r, dflt) ==
    [is_valid |-> valid, state_uncertain |-> uncertain, value |-> r.value,
     position |-> r.position, tilt |-> r.tilt, default |-> dflt]

\* A persisted last state: the state string, the cover attributes and, for
\* sensor and number, the stored native value.
StoredState(st, p, t, nv) ==
    [held |-> TRUE, state |-> st, position |-> p, tilt |-> t, native_value |-> nv]

NoState ==
    [held |-> FALSE, state |-> "", position |-> NoneV, tilt |-> NoneV,
     native_value |-> NoneV]

NotUsable ==
    {StoredState(STATE_UNKNOWN, NoneV, NoneV, NoneV),
     StoredState(STATE_UNAVAILABLE, NoneV, NoneV, NoneV)}

\* What the framework's restore store can hold for an entity of kind k.
PersistedStates(k) ==
    {NoState} \cup NotUsable \cup
    CASE k \in {"binary_sensor", "switch", "siren"} ->
           {StoredState(st, NoneV, NoneV, NoneV) : st \in {"on", "off"}}
      [] k = "lock" ->
           {StoredState(st, NoneV, NoneV, NoneV) : st \in {"locked", "unlocked"}}
      [] k = "cover" ->
           {StoredState("closed", IntV(0), IntV(0), NoneV),
            StoredState("open", IntV(70), IntV(20), NoneV),
            StoredState("open", IntV(70), NoneV, NoneV)}
      [] k \in {"select", "text"} ->
           {StoredState("closed", NoneV, NoneV, NoneV)}
      [] k = "sensor" ->
           {StoredState("5", NoneV, NoneV, IntV(5)),
            StoredState("closed", NoneV, NoneV, StrV("closed"))}
      [] OTHER ->
           {StoredState("5.0", NoneV, NoneV, FloatV(5))}

-----------------------------------------------------------------------------
\* The entity's read properties.

\* Variant of IsRestored that leaves out the validity test.
IsRestoredAnyValidity(d, rs) == rs.held

\* HaHomematicGenericRestoreEntity.is_restored (State.state is never None)
IsRestored(d, rs) == ~d.is_valid /\ rs.held

\* Variant of NativeIsRestored that leaves out the validity test.
NativeIsRestoredAnyValidity(d, rnv) == rnv # NoneV

\* HaHomematicSensor.is_restored, HaHomematicNumber.is_restored
NativeIsRestored(d, rnv) == ~d.is_valid /\ rnv # NoneV

\* self.is_restored and self._restored_state
\*   and self._restored_state.state not in (STATE_UNKNOWN, STATE_UNAVAILABLE)
RestoredStateUsable(d, rs) ==
    IsRestored(d, rs) /\ rs.held /\ rs.state \notin {STATE_UNKNOWN, STATE_UNAVAILABLE}

BinarySensorIsOn(d, rs) ==
    IF d.is_valid THEN d.value
    ELSE IF RestoredStateUsable(d, rs) THEN BoolV(rs.state = STATE_ON)
    ELSE d.default

\* Variant of SwitchIsOn that never falls back to the restored state.
SwitchIsOnLiveOnly(d, rs) ==
    IF d.is_valid THEN BoolV(IsTrue(d.value)) ELSE NoneV

SwitchIsOn(d, rs) ==
    IF d.is_valid THEN BoolV(IsTrue(d.value))
    ELSE IF RestoredStateUsable(d, rs) THEN BoolV(rs.state = STATE_ON)
    ELSE NoneV

LockIsLocked(d, rs) ==
    IF d.is_valid THEN d.value
    ELSE IF RestoredStateUsable(d, rs) THEN BoolV(rs.state = LOCKED)
    ELSE NoneV

SirenIsOn(d, rs) ==
    IF d.is_valid THEN BoolV(IsTrue(d.value))
    ELSE IF RestoredStateUsable(d, rs) THEN BoolV(rs.state = STATE_ON)
    ELSE NoneV

CoverIsClosed(d, rs) ==
    IF d.is_valid THEN d.value
    ELSE IF RestoredStateUsable(d, rs) THEN BoolV(rs.state = STATE_CLOSED)
    ELSE NoneV

CurrentCoverPosition(d, rs) ==
    IF d.is_valid THEN d.position
    ELSE IF IsRestored(d, rs) /\ rs.held THEN rs.position
    ELSE NoneV

CurrentCoverTiltPosition(d, rs) ==
    IF d.is_valid THEN d.tilt
    ELSE IF IsRestored(d, rs) /\ rs.held THEN rs.tilt
    ELSE NoneV

SelectCurrentOption(d, rs) ==
    IF d.is_valid THEN (IF d.value # NoneV THEN LowerV(d.value) ELSE NoneV)
    ELSE IF RestoredStateUsable(d, rs) THEN StrV(rs.state)
    ELSE NoneV

TextNativeValue(d, rs) ==
    IF d.is_valid THEN d.value
    ELSE IF RestoredStateUsable(d, rs) THEN StrV(rs.state)
    ELSE NoneV

SensorNativeValue(cfg, d, rnv) ==
    IF d.is_valid
    THEN IF d.value # NoneV /\ cfg.hmtype \in {"FLOAT", "INTEGER"} /\ cfg.multiplier # 1
         THEN IntV(d.value.n * cfg.multiplier)
         ELSE IF d.value # NoneV /\ cfg.has_translation_key
                 /\ cfg.hmtype \in {"ENUM", "STRING"}
         THEN LowerV(d.value)
         ELSE d.value
    ELSE IF NativeIsRestored(d, rnv) THEN rnv
    ELSE NoneV

NumberNativeValue(cfg, d, rnv) ==
    IF d.is_valid /\ d.value # NoneV THEN FloatV(d.value.n * cfg.multiplier)
    ELSE IF NativeIsRestored(d, rnv) THEN rnv
    ELSE NoneV

\* What the entity of kind k exposes: its state and, for a cover, the position
\* and tilt position attributes.
ExposedState(k, cfg, d, rs, rnv) ==
    [state |->
        CASE k = "binary_sensor" -> BinarySensorIsOn(d, rs)
          [] k = "switch" -> SwitchIsOn(d, rs)
          [] k = "lock" -> LockIsLocked(d, rs)
          [] k = "siren" -> SirenIsOn(d, rs)
          [] k = "cover" -> CoverIsClosed(d, rs)
          [] k = "select" -> SelectCurrentOption(d, rs)
          [] k = "text" -> TextNativeValue(d, rs)
          [] k = "sensor" -> SensorNativeValue(cfg, d, rnv)
          [] OTHER -> NumberNativeValue(cfg, d, rnv),
     position |-> IF k = "cover" THEN CurrentCoverPosition(d, rs) ELSE NoneV,
     tilt |-> IF k = "cover" THEN CurrentCoverTiltPosition(d, rs) ELSE NoneV]

\* HaHomematicGenericEntity.extra_state_attributes[ATTR_VALUE_STATE] for a
\* readable generic or a custom data point.
BaseValueState(d) ==
    IF d.is_valid
    THEN (IF d.state_uncertain THEN UNCERTAIN ELSE VALID)
    ELSE NOT_VALID

\* extra_state_attributes[ATTR_VALUE_STATE] of the restore-capable entities.
ValueState(k, d, rs, rnv) ==
    IF k \in NativeRestoreKinds
    THEN (IF NativeIsRestored(d, rnv) THEN RESTORED ELSE BaseValueState(d))
    ELSE (IF IsRestored(d, rs) THEN RESTORED ELSE BaseValueState(d))

Exposed == ExposedState(ent_kind, ent_cfg, dp, restored_state, restored_native_value)
Attribute == ValueState(ent_kind, dp, restored_state, restored_native_value)

-----------------------------------------------------------------------------
\* The life of one restore-capable entity: construction, async_added_to_hass
\* (callback registration, initial load, restore), and the data point changing
\* underneath it.

InitEntity ==
    /\ ent_kind \in Kinds
    /\ ent_cfg \in EntityCfgs(ent_kind)
    /\ \E valid \in BOOLEAN, r \in DpReadings(ent_kind, ent_cfg),
          dflt \in DpDefaults(ent_kind) :
          dp = DataPoint(valid, FALSE,
                         IF valid THEN r ELSE Reading(NoneV, NoneV, NoneV), dflt)
    /\ persisted \in PersistedStates(ent_kind)
    /\ restored_state = NoState
    /\ restored_native_value = NoneV
    /\ phase = "constructed"
    /\ valid_at_load = FALSE
    /\ valid_once = FALSE

\* The entity of the other scenarios: constructed and left alone.
IdleEntity ==
    /\ ent_kind = "switch"
    /\ ent_cfg = [hmtype |-> "NONE", multiplier |-> 1, has_translation_key |-> TRUE]
    /\ dp = DataPoint(FALSE, FALSE, Reading(NoneV, NoneV, NoneV), NoneV)
    /\ persisted = NoState
    /\ restored_state = NoState
    /\ restored_native_value = NoneV
    /\ phase = "constructed"
    /\ valid_at_load = FALSE
    /\ valid_once = FALSE

\* async_added_to_hass up to the await of load_data_point_value: the
\* callbacks are registered and the initial load is started.
AsyncAddedToHass ==
    /\ phase = "constructed"
    /\ phase' = "loading"
    /\ UNCHANGED <<ent_kind, ent_cfg, dp, persisted, restored_state,
                   restored_native_value, valid_at_load, valid_once>>
    /\ UNCHANGED <<mqtt_vars, removal_vars, ext_vars>>

\* The initial load returns.  A state-restoring entity goes on to await
\* async_get_last_state; a sensor or number awaits its last stored data only
\* if the data point is not valid now.
LoadDataPointValueDone ==
    /\ phase = "loading"
    /\ phase' = IF ent_kind \in NativeRestoreKinds /\ dp.is_valid
                THEN "added" ELSE "restoring"
    /\ valid_at_load' = dp.is_valid
    /\ valid_once' = (phase' = "added" /\ dp.is_valid)
    /\ UNCHANGED <<ent_kind, ent_cfg, dp, persisted, restored_state,
                   restored_native_value>>
    /\ UNCHANGED <<mqtt_vars, removal_vars, ext_vars>>

\* self._restored_state = await self.async_get_last_state()
AsyncGetLastStateDone ==
    /\ phase = "restoring"
    /\ ent_kind \in StateRestoreKinds
    /\ restored_state' = persisted
    /\ phase' = "added"
    /\ valid_once' = dp.is_valid
    /\ UNCHANGED <<ent_kind, ent_cfg, dp, persisted, restored_native_value, valid_at_load>>
    /\ UNCHANGED <<mqtt_vars, removal_vars, ext_vars>>

\* if ... (restored_sensor_data := await self.async_get_last_sensor_data()):
\*     self._restored_native_value = restored_sensor_data.native_value
AsyncGetLastSensorDataDone ==
    /\ phase = "restoring"
    /\ ent_kind \in NativeRestoreKinds
    /\ restored_native_value' =
          IF persisted.held THEN persisted.native_value ELSE restored_native_value
    /\ phase' = "added"
    /\ valid_once' = dp.is_valid
    /\ UNCHANGED <<ent_kind, ent_cfg, dp, persisted, restored_state, valid_at_load>>
    /\ UNCHANGED <<mqtt_vars, removal_vars, ext_vars>>

\* The library writes a value it received: the data point is valid.
DataPointWritten ==
    /\ \E r \in DpReadings(ent_kind, ent_cfg) :
          dp' = DataPoint(TRUE, FALSE, r, dp.default)
    /\ valid_once' = (valid_once \/ phase = "added")
    /\ UNCHANGED <<ent_kind, ent_cfg, persisted, restored_state,
                   restored_native_value, phase, valid_at_load>>
    /\ UNCHANGED <<mqtt_vars, removal_vars, ext_vars>>

\* The library marks the value of a valid data point as uncertain.
DataPointUncertain ==
    /\ dp.is_valid
    /\ ~dp.state_uncertain
    /\ dp' = [dp EXCEPT !.state_uncertain = TRUE]
    /\ UNCHANGED <<ent_kind, ent_cfg, persisted, restored_state,
                   restored_native_value, phase, valid_at_load, valid_once>>
    /\ UNCHANGED <<mqtt_vars, removal_vars, ext_vars>>

\* The data point reports is_valid = False again.
DataPointInvalidated ==
    /\ dp.is_valid
    /\ dp' = [dp EXCEPT !.is_valid = FALSE, !.state_uncertain = FALSE]
    /\ UNCHANGED <<ent_kind, ent_cfg, persisted, restored_state,
                   restored_native_value, phase, valid_at_load, valid_once>>
    /\ UNCHANGED <<mqtt_vars, removal_vars, ext_vars>>

NextEntity ==
    \/ AsyncAddedToHass
    \/ LoadDataPointValueDone
    \/ AsyncGetLastStateDone
    \/ AsyncGetLastSensorDataDone
    \/ DataPointWritten
    \/ DataPointUncertain
    \/ DataPointInvalidated

-----------------------------------------------------------------------------
\* The MQTT consumer.

NumCentrals == 2
CentralNames == 1..NumCentrals

Topics == {"device/status/A", "device/status/B"}

\* A received payload: a JSON object with or without the field v, a JSON
\* value that is no object, or text that is no JSON.
Payload(kind, has_v, v) == [kind |-> kind, has_v |-> has_v, v |-> v]

Payloads ==
    {Payload("object", TRUE, v) :
        v \in {NoneV, IntV(0), IntV(42), BoolV(FALSE), StrV("")}}
    \cup {Payload("object", FALSE, NoneV), Payload("array", FALSE, NoneV),
          Payload("not_json", FALSE, NoneV)}

Messages == [topic : Topics, payload : Payloads]

NoMessage == [topic |-> "", payload |-> Payload("none", FALSE, NoneV)]

Call(op, central, issued, error) ==
    [op |-> op, central |-> central, issued |-> issued, error |-> error]

\* name in self._centrals
Registered(c) == \E i \in 1..Len(centrals) : centrals[i] = c

\* del self._centrals[name]
Without(seq, c) == SelectSeq(seq, LAMBDA x : x # c)

\* self._centrals[name] = central
With(seq, c) ==
    IF \E i \in 1..Len(seq) : seq[i] = c THEN seq ELSE Append(seq, c)

InitMqtt ==
    /\ mqtt_configured \in BOOLEAN
    /\ centrals = <<>>
    /\ sub_state = "None"
    /\ sub_pending = {}
    /\ broker_active = FALSE
    /\ last_call = Call("none", 0, "none", "none")
    /\ mqtt_msg = NoMessage
    /\ path_events = <<>>

IdleMqtt ==
    /\ mqtt_configured = FALSE
    /\ centrals = <<>>
    /\ sub_state = "None"
    /\ sub_pending = {}
    /\ broker_active = FALSE
    /\ last_call = Call("none", 0, "none", "none")
    /\ mqtt_msg = NoMessage
    /\ path_events = <<>>

\* Variant of MustSubscribe that leaves out the test of the configuration.
MustSubscribeUnconfigured == sub_state = "None"

\* _subscribe prepares and issues the topic subscription:
\* MQTT is configured and self._sub_state is None.
MustSubscribe == mqtt_configured /\ sub_state = "None"

\* _unsubscribe issues the unsubscription:
\* MQTT is configured and self._sub_state is truthy.
MustUnsubscribe == mqtt_configured /\ sub_state # "None"

\* subscribe(central) up to its first suspension.  A central that is already
\* registered is left alone.  Otherwise _subscribe runs: when it has a
\* subscription to make, it prepares it and is suspended in
\* async_subscribe_topics; when it has none, the central is registered at once.
Subscribe(c) ==
    /\ c \notin sub_pending
    /\ IF Registered(c)
       THEN /\ last_call' = Call("subscribe", c, "none", "none")
            /\ UNCHANGED <<centrals, sub_state, sub_pending>>
       ELSE IF MustSubscribe
       THEN /\ sub_state' = "prepared"
            /\ sub_pending' = sub_pending \cup {c}
            /\ last_call' = Call("subscribe", c, "subscribe", "none")
            /\ UNCHANGED centrals
       ELSE /\ centrals' = With(centrals, c)
            /\ last_call' = Call("subscribe", c, "none", "none")
            /\ UNCHANGED <<sub_state, sub_pending>>
    /\ UNCHANGED <<mqtt_configured, broker_active, mqtt_msg, path_events>>
    /\ UNCHANGED <<restore_vars, removal_vars, ext_vars>>

\* async_subscribe_topics returns: the framework holds the subscription and
\* its unsubscribe callback; subscribe(central) registers the central.
SubscribeDone(c) ==
    /\ c \in sub_pending
    /\ sub_pending' = sub_pending \ {c}
    /\ sub_state' = "subscribed"
    /\ broker_active' = TRUE
    /\ centrals' = With(centrals, c)
    /\ last_call' = Call("subscribe_done", c, "none", "none")
    /\ UNCHANGED <<mqtt_configured, mqtt_msg, path_events>>
    /\ UNCHANGED <<restore_vars, removal_vars, ext_vars>>

\* unsubscribe(central): drop the central if it is registered; with no central
\* left, _unsubscribe runs.  self._sub_state is not assigned.
Unsubscribe(c) ==
    /\ centrals' = IF Registered(c) THEN Without(centrals, c) ELSE centrals
    /\ IF Len(centrals') = 0 /\ MustUnsubscribe
       THEN /\ last_call' = Call("unsubscribe", c, "unsubscribe", "none")
            /\ broker_active' = IF sub_state = "subscribed" THEN FALSE ELSE broker_active
       ELSE /\ last_call' = Call("unsubscribe", c, "none", "none")
            /\ UNCHANGED broker_active
    /\ UNCHANGED <<mqtt_configured, sub_state, sub_pending, mqtt_msg, path_events>>
    /\ UNCHANGED <<restore_vars, removal_vars, ext_vars>>

\* Variant of ReceiveError in which the field v is read by subscript, so that
\* an object without the field raises.
ReceiveErrorSubscript(payload) ==
    CASE payload.kind = "not_json" -> "ValueError"
      [] payload.kind = "array" -> "AttributeError"
      [] payload.kind = "object" /\ ~payload.has_v -> "KeyError"
      [] OTHER -> "none"

\* What json_loads and the access to the field v raise.
ReceiveError(payload) ==
    CASE payload.kind = "not_json" -> "ValueError"
      [] payload.kind = "array" -> "AttributeError"
      [] OTHER -> "none"

\* cast(dict, payload_dict).get("v")
PayloadValue(payload) == IF payload.has_v THEN payload.v ELSE NoneV

\* Variant of IsNotNone that tests the truth value of the field instead.
IsTruthy(v) == v \notin {NoneV, IntV(0), BoolV(FALSE), StrV("")}

\* (payload_value := ...) is not None
IsNotNone(v) == v # NoneV

\* for central in self._centrals.values():
\*     central.data_point_path_event(state_path=msg.topic, value=payload_value)
PathEvents(m) ==
    [i \in 1..Len(centrals) |->
        [central |-> centrals[i], state_path |-> m.topic,
         value |-> PayloadValue(m.payload)]]

\* _on_mqtt_msg_receive(msg), called by the framework for a message of the
\* subscribed topic.
OnMqttMsgReceive(m) ==
    /\ broker_active \/ sub_pending # {}
    /\ mqtt_msg' = m
    /\ last_call' = Call("message", 0, "none", ReceiveError(m.payload))
    /\ path_events' =
          IF ReceiveError(m.payload) = "none" /\ IsNotNone(PayloadValue(m.payload))
          THEN PathEvents(m)
          ELSE <<>>
    /\ UNCHANGED <<mqtt_configured, centrals, sub_state, sub_pending, broker_active>>
    /\ UNCHANGED <<restore_vars, removal_vars, ext_vars>>

\* Any interleaving of the consumer's entry points.
NextMqtt ==
    \/ \E c \in CentralNames : Subscribe(c)
    \/ \E c \in CentralNames : SubscribeDone(c)
    \/ \E c \in CentralNames : Unsubscribe(c)
    \/ \E m \in Messages : OnMqttMsgReceive(m)

\* The entry points called one after the other, each running to completion.
NextMqttSeq ==
    \/ sub_pending = {} /\ \E c \in CentralNames : Subscribe(c)
    \/ \E c \in CentralNames : SubscribeDone(c)
    \/ sub_pending = {} /\ \E c \in CentralNames : Unsubscribe(c)
    \/ sub_pending = {} /\ \E m \in Messages : OnMqttMsgReceive(m)

-----------------------------------------------------------------------------
\* Device removal: entities bound to devices, the device and entity
\* registries, and the tasks the event loop holds.

NumEntities == 2
NumChannelEvents == 2

Devices == {"dev1", "dev2"}
HubDevice == "ccu"

\* registry_entry.device_id of an entity that is bound to no device.
NoDevice == ""

Entity(d, i) == [device |-> d, idx |-> i]

\* dev1 carries NumEntities entities, dev2 one, the control unit one hub
\* entity; one entity has a registry entry without a device id.
Entities ==
    {Entity("dev1", i) : i \in 1..NumEntities}
    \cup {Entity("dev2", 1), Entity(HubDevice, 1), Entity(NoDevice, 1)}

\* generic: HaHomematicGenericEntity, event: HaHomematicEvent,
\* update: HaHomematicUpdate, hub: HaHomematicGenericHubEntity
KindOf(e) ==
    CASE e.device = HubDevice -> "hub"
      [] e.device = "dev2" -> "update"
      [] e.idx = 2 -> "event"
      [] OTHER -> "generic"

\* The device-removed callbacks async_added_to_hass registers: one, or one
\* per channel event of an event entity.
CallbacksOf(e) == IF KindOf(e) = "event" THEN NumChannelEvents ELSE 1

RegistryEntry(d) == [held |-> TRUE, device_id |-> d]
NoEntry == [held |-> FALSE, device_id |-> ""]

\* The record of a device-removed handler that ran.
Handled(e, branch, error) == [entity |-> e, branch |-> branch, error |-> error]

\* No device-removed handler ran in the step.
NoHandler == Handled(Entity(NoDevice, 0), "none", "none")

InitRemoval ==
    /\ device_registry = Devices \cup {HubDevice}
    /\ entity_registry = Entities
    /\ registry_entry = [e \in Entities |-> RegistryEntry(e.device)]
    /\ hm_callbacks = [e \in Entities |-> CallbacksOf(e)]
    /\ remove_tasks = [e \in Entities |-> 0]
    /\ registry_tasks = [e \in Entities |-> "none"]
    /\ platform_state = [e \in Entities |-> "added"]
    /\ cb_received = [e \in Entities |-> FALSE]
    /\ dr_remove_calls = [d \in Devices \cup {HubDevice} |-> 0]
    /\ last_handler = NoHandler

IdleRemoval == InitRemoval

\* The entities whose removal from the entity registry is announced to them:
\* an added entity schedules the task that processes the removal.
Announce(es) ==
    [e \in Entities |->
        IF e \in es /\ platform_state[e] = "added" /\ registry_tasks[e] = "none"
        THEN "scheduled" ELSE registry_tasks[e]]

\* Variant of DevicePresent that leaves out the look into the device registry.
DevicePresentUnchecked(d) == TRUE

\* device_id in device_registry.devices
DevicePresent(d) == d \in device_registry

\* Variant of RemovesDevice that keeps the device while another entity of the
\* entity registry is bound to it.
RemovesDeviceIfLast(e) ==
    /\ registry_entry[e].held
    /\ registry_entry[e].device_id # ""
    /\ registry_entry[e].device_id \in device_registry
    /\ \A x \in entity_registry :
          x.device = registry_entry[e].device_id => x = e

\* Variant of RemovesDevice that leaves out the look into the device registry.
RemovesDeviceUnguarded(e) ==
    /\ registry_entry[e].held
    /\ registry_entry[e].device_id # ""

\* The handler removes the device: it has a registry entry with a device id
\* and the device is in the device registry.
RemovesDevice(e) ==
    /\ registry_entry[e].held
    /\ registry_entry[e].device_id # ""
    /\ DevicePresent(registry_entry[e].device_id)

\* Variant of SchedulesRemoval that schedules the removal after the test of
\* the registry entry.
SchedulesRemovalWithEntry(e) == registry_entry[e].held

\* The handler schedules async_remove(force_remove=True) before it looks at
\* the registry entry.
SchedulesRemoval(e) == TRUE

\* The branch the handler takes after it has scheduled the removal.
HandlerBranch(e) ==
    CASE ~registry_entry[e].held -> "no_registry_entry"
      [] registry_entry[e].device_id = "" -> "no_device_id"
      [] ~RemovesDevice(e) -> "device_absent"
      [] OTHER -> "remove_device"

\* What the handler raises: async_remove_device raises KeyError for a device
\* id the device registry does not hold.
HandlerError(e) ==
    IF RemovesDevice(e) /\ registry_entry[e].device_id \notin device_registry
    THEN "KeyError"
    ELSE "none"

\* _async_device_removed of a generic, event or update entity, called by the
\* library for one registered callback.  device_registry.async_remove_device
\* drops the device and, with it, the entity registry entries of its entities.
DeviceRemoved(e) ==
    /\ hm_callbacks[e] > 0
    /\ hm_callbacks' = [hm_callbacks EXCEPT ![e] = @ - 1]
    /\ cb_received' = [cb_received EXCEPT ![e] = TRUE]
    /\ remove_tasks' = [remove_tasks EXCEPT ![e] = IF SchedulesRemoval(e) THEN @ + 1 ELSE @]
    /\ last_handler' = Handled(e, HandlerBranch(e), HandlerError(e))
    /\ IF RemovesDevice(e)
       THEN LET d == registry_entry[e].device_id
                gone == {x \in entity_registry : x.device = d}
            IN /\ device_registry' = device_registry \ {d}
               /\ dr_remove_calls' = [dr_remove_calls EXCEPT ![d] = @ + 1]
               /\ entity_registry' = entity_registry \ gone
               /\ registry_tasks' = Announce(gone)
       ELSE UNCHANGED <<device_registry, dr_remove_calls, entity_registry, registry_tasks>>
    /\ UNCHANGED <<registry_entry, platform_state>>
    /\ UNCHANGED <<restore_vars, mqtt_vars, ext_vars>>

\* HaHomematicGenericEntity._async_device_removed
AsyncDeviceRemoved(e) == KindOf(e) = "generic" /\ DeviceRemoved(e)

\* HaHomematicEvent._async_device_removed
EventAsyncDeviceRemoved(e) == KindOf(e) = "event" /\ DeviceRemoved(e)

\* HaHomematicUpdate._async_device_removed
UpdateAsyncDeviceRemoved(e) == KindOf(e) = "update" /\ DeviceRemoved(e)

\* Variant of AsyncHubDeviceRemoved that handles the notification as the
\* entities bound to a device do.
AsyncHubDeviceRemovedWithDevice(e) == KindOf(e) = "hub" /\ DeviceRemoved(e)

\* HaHomematicGenericHubEntity._async_hub_device_removed: the entity's own
\* entry is removed from the entity registry.
AsyncHubDeviceRemoved(e) ==
    /\ KindOf(e) = "hub"
    /\ hm_callbacks[e] > 0
    /\ hm_callbacks' = [hm_callbacks EXCEPT ![e] = @ - 1]
    /\ cb_received' = [cb_received EXCEPT ![e] = TRUE]
    /\ remove_tasks' = [remove_tasks EXCEPT ![e] = @ + 1]
    /\ last_handler' = Handled(e, "hub", "none")
    /\ IF registry_entry[e].held /\ e \in entity_registry
       THEN /\ entity_registry' = entity_registry \ {e}
            /\ registry_tasks' = Announce({e})
       ELSE UNCHANGED <<entity_registry, registry_tasks>>
    /\ UNCHANGED <<device_registry, dr_remove_calls, registry_entry, platform_state>>
    /\ UNCHANGED <<restore_vars, mqtt_vars, ext_vars>>

\* The event loop runs a scheduled async_remove(force_remove=True): an added
\* entity is removed and async_will_remove_from_hass unregisters its callbacks.
RunRemoveTask(e) ==
    /\ remove_tasks[e] > 0
    /\ remove_tasks' = [remove_tasks EXCEPT ![e] = @ - 1]
    /\ platform_state' = [platform_state EXCEPT ![e] = "removed"]
    /\ hm_callbacks' = [hm_callbacks EXCEPT ![e] = 0]
    /\ UNCHANGED <<device_registry, entity_registry, registry_entry, registry_tasks,
                   cb_received, dr_remove_calls>>
    /\ last_handler' = NoHandler
    /\ UNCHANGED <<restore_vars, mqtt_vars, ext_vars>>

\* The task processing the removal from the entity registry starts:
\* self.registry_entry = None.
RegistryRemovedClear(e) ==
    /\ registry_tasks[e] = "scheduled"
    /\ registry_tasks' = [registry_tasks EXCEPT ![e] = "cleared"]
    /\ registry_entry' = [registry_entry EXCEPT ![e] = NoEntry]
    /\ UNCHANGED <<device_registry, entity_registry, hm_callbacks, remove_tasks,
                   platform_state, cb_received, dr_remove_calls>>
    /\ last_handler' = NoHandler
    /\ UNCHANGED <<restore_vars, mqtt_vars, ext_vars>>

\* ... and goes on to async_remove(): the entity is removed and its callbacks
\* are unregistered.
RegistryRemovedDone(e) ==
    /\ registry_tasks[e] = "cleared"
    /\ registry_tasks' = [registry_tasks EXCEPT ![e] = "none"]
    /\ platform_state' = [platform_state EXCEPT ![e] = "removed"]
    /\ hm_callbacks' = [hm_callbacks EXCEPT ![e] = 0]
    /\ UNCHANGED <<device_registry, entity_registry, registry_entry, remove_tasks,
                   cb_received, dr_remove_calls>>
    /\ last_handler' = NoHandler
    /\ UNCHANGED <<restore_vars, mqtt_vars, ext_vars>>

NextRemoval ==
    \/ \E e \in Entities : AsyncDeviceRemoved(e)
    \/ \E e \in Entities : EventAsyncDeviceRemoved(e)
    \/ \E e \in Entities : UpdateAsyncDeviceRemoved(e)
    \/ \E e \in Entities : AsyncHubDeviceRemoved(e)
    \/ \E e \in Entities : RunRemoveTask(e)
    \/ \E e \in Entities : RegistryRemovedClear(e)
    \/ \E e \in Entities : RegistryRemovedDone(e)

-----------------------------------------------------------------------------
\* The callbacks of one entity: registration in async_added_to_hass, the
\* data-point-updated and device-removed callbacks, and their removal in
\* async_will_remove_from_hass.

MaxRefreshes == 2

LcKinds == {"generic", "hub", "update", "event"}

CallbackKinds == {"updated", "removed"}

\* The number of times x occurs in seq.
CountOf(seq, x) == Cardinality({i \in 1..Len(seq) : seq[i] = x})

\* register_data_point_updated_callback and register_device_removed_callback
\* of one channel event after the other.
RECURSIVE EventRegistrations(_)
EventRegistrations(k) ==
    IF k = 0 THEN <<>>
    ELSE EventRegistrations(k - 1) \o <<"updated", "removed">>

\* Variant of AddedToHassCalls in which the generic entity starts the initial
\* load before it registers its callbacks.
AddedToHassCallsLoadFirst(kind) ==
    CASE kind = "generic" -> <<"load", "updated", "removed">>
      [] kind = "event" -> EventRegistrations(NumChannelEvents)
      [] OTHER -> <<"updated", "removed">>

\* The calls async_added_to_hass makes at the data point(s), in order: the
\* registration of a callback of the given kind, or "load" for
\* load_data_point_value(call_source=CallSource.HA_INIT).
AddedToHassCalls(kind) ==
    CASE kind = "generic" -> <<"updated", "removed", "load">>
      [] kind = "event" -> EventRegistrations(NumChannelEvents)
      [] OTHER -> <<"updated", "removed">>

\* The calls made up to the first suspension: up to and with the load.
UpToLoad(seq) ==
    IF CountOf(seq, "load") = 0 THEN seq
    ELSE SubSeq(seq, 1, CHOOSE i \in 1..Len(seq) :
                          seq[i] = "load" /\ \A j \in 1..(i - 1) : seq[j] # "load")

\* The calls made after the load has returned.
AfterLoad(seq) == SubSeq(seq, Len(UpToLoad(seq)) + 1, Len(seq))

\* The registrations among the calls: what is appended to
\* self._unregister_callbacks.
Registrations(seq) == SelectSeq(seq, LAMBDA c : c \in CallbackKinds)

LcStep(op) == [op |-> op]

InitLifecycle ==
    /\ lc_kind \in LcKinds
    /\ lc_enabled \in BOOLEAN
    /\ lc_phase = "constructed"
    /\ lc_callbacks = [c \in CallbackKinds |-> 0]
    /\ lc_unregister = <<>>
    /\ lc_calls = <<>>
    /\ lc_refreshes = 0
    /\ lc_events = 0
    /\ lc_removals = 0
    /\ lc_last = LcStep("none")

IdleLifecycle ==
    /\ lc_kind = "generic"
    /\ lc_enabled = TRUE
    /\ lc_phase = "constructed"
    /\ lc_callbacks = [c \in CallbackKinds |-> 0]
    /\ lc_unregister = <<>>
    /\ lc_calls = <<>>
    /\ lc_refreshes = 0
    /\ lc_events = 0
    /\ lc_removals = 0
    /\ lc_last = LcStep("none")

\* The calls in made are carried out: the callbacks are registered at the
\* data point(s) and their unregister functions are kept.
Carried(made) ==
    /\ lc_calls' = lc_calls \o made
    /\ lc_unregister' = lc_unregister \o Registrations(made)
    /\ lc_callbacks' = [c \in CallbackKinds |-> lc_callbacks[c] + CountOf(made, c)]

\* async_added_to_hass of the entity, up to the await of the initial load or,
\* without a load, to its end.
EntityAddedToHass ==
    /\ lc_phase = "constructed"
    /\ Carried(UpToLoad(AddedToHassCalls(lc_kind)))
    /\ lc_phase' = IF CountOf(AddedToHassCalls(lc_kind), "load") > 0
                   THEN "loading" ELSE "added"
    /\ lc_last' = LcStep("added_to_hass")
    /\ UNCHANGED <<lc_kind, lc_enabled, lc_refreshes, lc_events, lc_removals>>
    /\ UNCHANGED not_lifecycle_vars

\* load_data_point_value returns and async_added_to_hass runs to its end.
InitialLoadDone ==
    /\ lc_phase = "loading"
    /\ Carried(AfterLoad(AddedToHassCalls(lc_kind)))
    /\ lc_phase' = "added"
    /\ lc_last' = LcStep("load_done")
    /\ UNCHANGED <<lc_kind, lc_enabled, lc_refreshes, lc_events, lc_removals>>
    /\ UNCHANGED not_lifecycle_vars

\* Variant of SchedulesRefresh that leaves out the test of self.enabled.
SchedulesRefreshAlways(enabled) == TRUE

\* if self.enabled: ... self.async_schedule_update_ha_state()
SchedulesRefresh(enabled) == enabled

\* if self.enabled: self._trigger_event(event_type=kwargs["parameter"])
TriggersEvent(kind, enabled) == kind = "event" /\ enabled

\* The library calls a registered data-point-updated callback:
\* _async_data_point_updated, _async_hub_entity_updated, _async_entity_changed
\* or _async_event_changed.
DataPointUpdatedCallback ==
    /\ lc_callbacks["updated"] > 0
    /\ lc_refreshes < MaxRefreshes
    /\ lc_refreshes' = IF SchedulesRefresh(lc_enabled) THEN lc_refreshes + 1 ELSE lc_refreshes
    /\ lc_events' = IF TriggersEvent(lc_kind, lc_enabled) THEN lc_events + 1 ELSE lc_events
    /\ lc_last' = LcStep("updated")
    /\ UNCHANGED <<lc_kind, lc_enabled, lc_phase, lc_callbacks, lc_unregister,
                   lc_calls, lc_removals>>
    /\ UNCHANGED not_lifecycle_vars

\* The library calls a registered device-removed callback: the forced removal
\* of the entity is scheduled.
DeviceRemovedCallback ==
    /\ lc_callbacks["removed"] > 0
    /\ lc_removals < MaxRefreshes
    /\ lc_removals' = lc_removals + 1
    /\ lc_last' = LcStep("device_removed")
    /\ UNCHANGED <<lc_kind, lc_enabled, lc_phase, lc_callbacks, lc_unregister,
                   lc_calls, lc_refreshes, lc_events>>
    /\ UNCHANGED not_lifecycle_vars

\* Variant of Unregistered that calls only the first two unregister
\* functions.
UnregisteredFirstPair(seq) == SubSeq(seq, 1, IF Len(seq) < 2 THEN Len(seq) ELSE 2)

\* for unregister in self._unregister_callbacks:
\*     if unregister is not None: unregister()
Unregistered(seq) == seq

\* async_will_remove_from_hass of an added entity.
AsyncWillRemoveFromHass ==
    /\ lc_phase = "added"
    /\ lc_phase' = "removed"
    /\ lc_callbacks' =
          [c \in CallbackKinds |->
              lc_callbacks[c] - CountOf(Unregistered(lc_unregister), c)]
    /\ lc_last' = LcStep("will_remove")
    /\ UNCHANGED <<lc_kind, lc_enabled, lc_unregister, lc_calls, lc_refreshes,
                   lc_events, lc_removals>>
    /\ UNCHANGED not_lifecycle_vars

\* The entity is enabled or disabled in the entity registry.
EnabledChanged ==
    /\ lc_phase # "removed"
    /\ lc_enabled' = ~lc_enabled
    /\ lc_last' = LcStep("enabled_changed")
    /\ UNCHANGED <<lc_kind, lc_phase, lc_callbacks, lc_unregister, lc_calls,
                   lc_refreshes, lc_events, lc_removals>>
    /\ UNCHANGED not_lifecycle_vars

NextLifecycle ==
    \/ EntityAddedToHass
    \/ InitialLoadDone
    \/ DataPointUpdatedCallback
    \/ DeviceRemovedCallback
    \/ AsyncWillRemoveFromHass
    \/ EnabledChanged

-----------------------------------------------------------------------------
\* The setup of a platform: async_setup_entry connects the add-callbacks to
\* the new-data-point signals, registers the disconnects for the unload of the
\* config entry, and hands the data points already known to the
\* add-callbacks.

NumEventTypes == 2
NumDataPoints == 2
MaxSignals == 1

Platforms ==
    {"binary_sensor", "button", "cover", "event", "lock", "number", "select",
     "sensor", "siren", "switch", "text", "update"}

\* The platforms with an add-callback for hub data points.
HubPlatforms == {"binary_sensor", "button", "number", "select", "sensor", "switch", "text"}

\* DataPointCategory.X and DataPointCategory.HUB_X
Cat(platform, hub) == [platform |-> platform, hub |-> hub]

\* The categories of a platform, in the order async_setup_entry connects them.
Categories(platform) ==
    IF platform \in HubPlatforms
    THEN <<Cat(platform, FALSE), Cat(platform, TRUE)>>
    ELSE <<Cat(platform, FALSE)>>

AllCategories == {Cat(pl, h) : pl \in Platforms, h \in BOOLEAN}

\* The classes of the data points of a category that the add-callback tells
\* apart.
CoverClasses ==
    <<"CustomDpIpBlind:SHUTTER", "CustomDpIpBlind", "CustomDpBlind",
      "CustomDpCover", "CustomDpGarage">>

DataPoints(cat) ==
    IF cat.platform = "cover"
    THEN {[id |-> i, cls |-> CoverClasses[i]] : i \in 1..Len(CoverClasses)}
    ELSE {[id |-> i, cls |-> "data_point"] : i \in 1..NumDataPoints}

\* The tuples of data points handed to an add-callback: none, one, or two
\* neighbouring ones.
Batches(cat) ==
    {<<>>}
    \cup {<<a>> : a \in DataPoints(cat)}
    \cup {pair \in DataPoints(cat) \X DataPoints(cat) :
            pair[2].id - pair[1].id = 1}

AllBatches == UNION {Batches(c) : c \in AllCategories}

\* The entity class the add-callback wraps a data point in.
EntityClass(cat, data_point) ==
    CASE cat.hub -> "sysvar"
      [] data_point.cls \in {"CustomDpIpBlind:SHUTTER", "CustomDpCover"} -> "HaHomematicCover"
      [] data_point.cls \in {"CustomDpIpBlind", "CustomDpBlind"} -> "HaHomematicBlind"
      [] data_point.cls = "CustomDpGarage" -> "HaHomematicGarage"
      [] OTHER -> cat.platform

\* [X(control_unit=control_unit, data_point=data_point) for data_point in data_points]
WrappedEntities(cat, batch) ==
    [i \in 1..Len(batch) |->
        [class |-> EntityClass(cat, batch[i]), data_point |-> batch[i]]]

\* Variant of AddCallback that calls async_add_entities with an empty list
\* too.
AddCallbackUnguarded(cat, batch) == <<WrappedEntities(cat, batch)>>

\* The async_add_entities calls of one add-callback run:
\* if entities := [...]: async_add_entities(entities)
AddCallback(cat, batch) ==
    IF Len(WrappedEntities(cat, batch)) > 0
    THEN <<WrappedEntities(cat, batch)>>
    ELSE <<>>

SetupStep(op, cat) == [op |-> op, cat |-> cat]

\* entry.async_on_unload(func=async_dispatcher_connect(...)) for each category
RECURSIVE ConnectSteps(_)
ConnectSteps(cats) ==
    IF cats = <<>> THEN <<>>
    ELSE <<SetupStep("connect", Head(cats)), SetupStep("on_unload", Head(cats))>>
         \o ConnectSteps(Tail(cats))

RECURSIVE Repeated(_, _)
Repeated(step, n) == IF n = 0 THEN <<>> ELSE <<step>> \o Repeated(step, n - 1)

\* The calls of the add-callbacks with the data points already known: one
\* per category; the event platform makes one per event type of
\* DATA_POINT_EVENTS.
DrainSteps(platform) ==
    IF platform = "event"
    THEN Repeated(SetupStep("drain", Cat("event", FALSE)), NumEventTypes)
    ELSE [i \in 1..Len(Categories(platform)) |->
            SetupStep("drain", Categories(platform)[i])]

\* Variant of SetupSteps that hands over the known data points first.
SetupStepsDrainFirst(platform) ==
    DrainSteps(platform) \o ConnectSteps(Categories(platform))

\* The steps of async_setup_entry, in order.
SetupSteps(platform) ==
    ConnectSteps(Categories(platform)) \o DrainSteps(platform)

AddCall(cat, batch) == [cat |-> cat, batch |-> batch]

\* The async_add_entities calls the add-callback runs calls make, in order.
RECURSIVE SinkCalls(_)
SinkCalls(calls) ==
    IF calls = <<>> THEN <<>>
    ELSE AddCallback(Head(calls).cat, Head(calls).batch) \o SinkCalls(Tail(calls))

SuStep(op, cat, delivered) == [op |-> op, cat |-> cat, delivered |-> delivered]

\* What the control unit holds for each drain of the platform.
KnownFor(platform) ==
    {k \in [1..Len(DrainSteps(platform)) -> AllBatches] :
        \A i \in 1..Len(DrainSteps(platform)) : k[i] \in Batches(DrainSteps(platform)[i].cat)}

InitSetup ==
    /\ su_platform \in Platforms
    /\ su_phase = "new"
    /\ su_known \in KnownFor(su_platform)
    /\ su_connected = {}
    /\ su_on_unload = {}
    /\ su_log = <<>>
    /\ su_add_calls = <<>>
    /\ su_sink = <<>>
    /\ su_last = SuStep("none", Cat("none", FALSE), FALSE)

IdleSetup ==
    /\ su_platform = "lock"
    /\ su_phase = "new"
    /\ su_known = <<<<>>>>
    /\ su_connected = {}
    /\ su_on_unload = {}
    /\ su_log = <<>>
    /\ su_add_calls = <<>>
    /\ su_sink = <<>>
    /\ su_last = SuStep("none", Cat("none", FALSE), FALSE)

\* async_setup_entry: it has no suspension point and runs as one step.
AsyncSetupEntry ==
    /\ su_phase = "new"
    /\ su_phase' = "set_up"
    /\ LET steps == SetupSteps(su_platform)
           drained ==
              [i \in 1..Len(DrainSteps(su_platform)) |->
                  AddCall(DrainSteps(su_platform)[i].cat, su_known[i])]
       IN /\ su_log' = steps
          /\ su_connected' =
                {steps[j].cat : j \in {i \in 1..Len(steps) : steps[i].op = "connect"}}
          /\ su_on_unload' =
                {steps[j].cat : j \in {i \in 1..Len(steps) : steps[i].op = "on_unload"}}
          /\ su_add_calls' = su_add_calls \o drained
          /\ su_sink' = su_sink \o SinkCalls(drained)
    /\ su_last' = SuStep("setup", Cat(su_platform, FALSE), TRUE)
    /\ UNCHANGED <<su_platform, su_known>>
    /\ UNCHANGED not_setup_vars

\* The dispatcher sends the new-data-point signal of a category: a connected
\* add-callback is run with the batch.
SignalNewDataPoint(cat, batch) ==
    /\ cat.platform = su_platform
    /\ batch \in Batches(cat)
    /\ cat \in su_connected =>
         Len(su_add_calls) < Len(DrainSteps(su_platform)) + MaxSignals
    /\ IF cat \in su_connected
       THEN /\ su_add_calls' = Append(su_add_calls, AddCall(cat, batch))
            /\ su_sink' = su_sink \o AddCallback(cat, batch)
       ELSE UNCHANGED <<su_add_calls, su_sink>>
    /\ su_last' = SuStep("signal", cat, cat \in su_connected)
    /\ UNCHANGED <<su_platform, su_phase, su_known, su_connected, su_on_unload, su_log>>
    /\ UNCHANGED not_setup_vars

\* The config entry unloads: the functions registered with async_on_unload
\* are called.
EntryUnload ==
    /\ su_phase = "set_up"
    /\ su_phase' = "unloaded"
    /\ su_connected' = su_connected \ su_on_unload
    /\ su_last' = SuStep("unload", Cat(su_platform, FALSE), TRUE)
    /\ UNCHANGED <<su_platform, su_known, su_on_unload, su_log, su_add_calls, su_sink>>
    /\ UNCHANGED not_setup_vars

NextSetup ==
    \/ AsyncSetupEntry
    \/ \E cat \in AllCategories, batch \in AllBatches : SignalNewDataPoint(cat, batch)
    \/ EntryUnload

-----------------------------------------------------------------------------
\* Entity write methods (button.py, cover.py, lock.py, number.py, select.py,
\* siren.py, switch.py, text.py, update.py).

\* Numbers are held in units of 1/Scale, so that a float with a fractional
\* part is told from its int().
Scale == 10
\* The longest value list of a select data point.
MaxValues == 2

Num(x) == [t |-> "num", b |-> FALSE, n |-> x, s |-> ""]

\* A keyword argument that is not passed.
Missing == [t |-> "missing", b |-> FALSE, n |-> 0, s |-> ""]

\* vol.Range(min=0, max=100)
RANGE_MIN == 0
RANGE_MAX == 100

InRange(v) == v.t = "num" /\ RANGE_MIN * Scale <= v.n /\ v.n <= RANGE_MAX * Scale

\* Variant of PyInt that bounds the result to the percentage range.
PyIntClamped(v) ==
    LET whole == IF v.n >= 0 THEN (v.n \div Scale) * Scale
                 ELSE -(((-v.n) \div Scale) * Scale)
    IN  Num(IF whole < RANGE_MIN * Scale THEN RANGE_MIN * Scale
            ELSE IF whole > RANGE_MAX * Scale THEN RANGE_MAX * Scale
            ELSE whole)

\* int(x): the number without its fractional part, rounded toward zero.
PyInt(v) ==
    Num(IF v.n >= 0 THEN (v.n \div Scale) * Scale
        ELSE -(((-v.n) \div Scale) * Scale))

\* Variant of Upper that leaves the string as it is.
UpperUnchanged(s) == s

\* str.upper() on the strings the model uses.
Upper(s) ==
    CASE s \in {"open", "OPEN"} -> "OPEN"
      [] s \in {"closed", "Closed", "CLOSED"} -> "CLOSED"
      [] s \in {"auto_1", "AUTO_1"} -> "AUTO_1"
      [] s \in {"hello", "Hello"} -> "HELLO"
      [] OTHER -> s

\* The strings a select data point's value list can hold.
LibraryStrings == {"OPEN", "CLOSED", "Closed", "closed", "AUTO_1"}

\* data_point.values: distinct strings; empty or None alike are falsy.
ValueLists ==
    UNION {{vs \in [1..n -> LibraryStrings] :
              \A i, j \in 1..n : i # j => vs[i] # vs[j]} : n \in 0..MaxValues}

CoverKinds == {"cover", "blind", "garage"}
SelectKinds == {"select", "sysvar_select"}
PlainWriteKinds ==
    {"button", "program_button", "lock", "switch", "custom_switch",
     "sysvar_switch", "siren", "sysvar_number", "text", "sysvar_text", "update"}
        \cup CoverKinds
WriteKinds == PlainWriteKinds \cup SelectKinds \cup {"number"}

WriteEntity(kind, multiplier, values) ==
    [kind |-> kind, multiplier |-> multiplier, values |-> values]

WriteEntities ==
    {WriteEntity(k, 1, <<>>) : k \in PlainWriteKinds}
        \cup {WriteEntity("number", m, <<>>) : m \in Multipliers}
        \cup {WriteEntity(k, 1, vs) : k \in SelectKinds, vs \in ValueLists}

\* HaHomematicSelect.options
SelectOptions(values) == [i \in 1..Len(values) |-> Lower(values[i])]

\* HaHomematicSysvarSelect.options
SysvarSelectOptions(values) == values

Options(entity) ==
    IF entity.kind = "select" THEN SelectOptions(entity.values)
    ELSE SysvarSelectOptions(entity.values)

\* The arguments of a method or a call, Missing where there is none.
Args(a, b, c) == [a |-> a, b |-> b, c |-> c]
NoArgs == Args(Missing, Missing, Missing)

\* A call at the data point, and a call at the CallParameterCollector.
DpCall(name, a, b, c) == [target |-> "data_point", name |-> name, args |-> Args(a, b, c)]
CollectorCall(name, a) ==
    [target |-> "collector", name |-> name, args |-> Args(a, Missing, Missing)]

\* kwargs.get(key) is truthy
KwargGiven(v) == v \notin {Missing, NoneV, Num(0), StrV("")}
Kwarg(v) == IF KwargGiven(v) THEN v ELSE Missing

\* A parameter with default None.
OrNone(v) == IF v = Missing THEN NoneV ELSE v

\* HaHomematicBaseCover.async_set_cover_position(position=a)
AsyncSetCoverPosition(args) ==
    IF args.a # Missing
    THEN <<DpCall("set_position", PyInt(args.a), Missing, Missing)>>
    ELSE <<>>

\* HaHomematicBlind.async_set_cover_tilt_position(tilt_position=b)
AsyncSetCoverTiltPosition(args) ==
    IF args.b # Missing
    THEN <<DpCall("set_position", Missing, PyInt(args.b), Missing)>>
    ELSE <<>>

\* Variant of AsyncSetCoverCombinedPosition that sends before it sets.
AsyncSetCoverCombinedPositionSendFirst(args) ==
    <<CollectorCall("send_data", OrNone(args.c)),
      DpCall("set_position", args.a, OrNone(args.b), BoolV(TRUE))>>

\* HaHomematicBaseCover.async_set_cover_combined_position(
\*     position=a, tilt_position=b, wait_for_callback=c):
\* set_position gets the collector, then the collector sends.
AsyncSetCoverCombinedPosition(args) ==
    <<DpCall("set_position", args.a, OrNone(args.b), BoolV(TRUE)),
      CollectorCall("send_data", OrNone(args.c))>>

\* HaHomematicSiren.async_turn_on(tone=a, light=b, duration=c)
SirenAsyncTurnOn(args) ==
    <<DpCall("turn_on", Kwarg(args.a), Kwarg(args.b), Kwarg(args.c))>>

\* HaHomematicNumber.async_set_native_value(value=a)
NumberAsyncSetNativeValue(entity, args) ==
    <<DpCall("send_value", Num(args.a.n \div entity.multiplier), Missing, Missing)>>

\* HaHomematicSelect.async_select_option(option=a)
AsyncSelectOption(args) ==
    <<DpCall("send_value", StrV(Upper(args.a.s)), Missing, Missing)>>

\* A method that forwards to one data-point method without arguments.
Forward(name) == <<DpCall(name, Missing, Missing, Missing)>>

\* A method that forwards its value to send_value or send_variable.
ForwardValue(name, v) == <<DpCall(name, v, Missing, Missing)>>

\* The write methods of each entity class.
WriteMethods(kind) ==
    CASE kind \in {"button", "program_button"} -> {"async_press"}
      [] kind = "lock" -> {"async_lock", "async_unlock", "async_open"}
      [] kind \in {"cover", "garage"} ->
           {"async_set_cover_position", "async_set_cover_combined_position",
            "async_open_cover", "async_close_cover", "async_stop_cover"}
      [] kind = "blind" ->
           {"async_set_cover_position", "async_set_cover_combined_position",
            "async_open_cover", "async_close_cover", "async_stop_cover",
            "async_set_cover_tilt_position", "async_open_cover_tilt",
            "async_close_cover_tilt", "async_stop_cover_tilt"}
      [] kind \in {"switch", "custom_switch"} ->
           {"async_turn_on", "async_turn_off", "async_set_on_time"}
      [] kind \in {"sysvar_switch", "siren"} -> {"async_turn_on", "async_turn_off"}
      [] kind \in {"number", "sysvar_number"} -> {"async_set_native_value"}
      [] kind \in {"text", "sysvar_text"} -> {"async_set_value"}
      [] kind \in SelectKinds -> {"async_select_option"}
      [] kind = "update" -> {"async_install", "async_update"}
      [] OTHER -> {}

AllWriteMethods == UNION {WriteMethods(k) : k \in WriteKinds}

\* The calls a method makes, in order, when none of them fails.
MethodCalls(entity, method, args) ==
    LET kind == entity.kind
    IN  CASE method = "async_press" -> Forward("press")
          [] method = "async_lock" -> Forward("lock")
          [] method = "async_unlock" -> Forward("unlock")
          [] method = "async_open" -> Forward("open")
          [] method = "async_set_cover_position" -> AsyncSetCoverPosition(args)
          [] method = "async_set_cover_tilt_position" -> AsyncSetCoverTiltPosition(args)
          [] method = "async_set_cover_combined_position" ->
               AsyncSetCoverCombinedPosition(args)
          [] method = "async_open_cover" -> Forward("open")
          [] method = "async_close_cover" -> Forward("close")
          [] method = "async_stop_cover" -> Forward("stop")
          [] method = "async_open_cover_tilt" -> Forward("open_tilt")
          [] method = "async_close_cover_tilt" -> Forward("close_tilt")
          [] method = "async_stop_cover_tilt" -> Forward("stop_tilt")
          [] method = "async_turn_on" ->
               IF kind = "sysvar_switch" THEN ForwardValue("send_variable", BoolV(TRUE))
               ELSE IF kind = "siren" THEN SirenAsyncTurnOn(args)
               ELSE Forward("turn_on")
          [] method = "async_turn_off" ->
               IF kind = "sysvar_switch" THEN ForwardValue("send_variable", BoolV(FALSE))
               ELSE Forward("turn_off")
          [] method = "async_set_on_time" -> ForwardValue("set_on_time", args.a)
          [] method = "async_set_native_value" ->
               IF kind = "sysvar_number" THEN ForwardValue("send_variable", args.a)
               ELSE NumberAsyncSetNativeValue(entity, args)
          [] method = "async_set_value" ->
               IF kind = "sysvar_text" THEN ForwardValue("send_variable", args.a)
               ELSE ForwardValue("send_value", args.a)
          [] method = "async_select_option" ->
               IF kind = "sysvar_select" THEN ForwardValue("send_variable", args.a)
               ELSE AsyncSelectOption(args)
          [] method = "async_install" -> Forward("update_firmware")
          [] method = "async_update" -> Forward("refresh_firmware_data")
          [] OTHER -> <<>>

\* The values a caller can ask for as a position or a tilt position: below
\* the range, a fraction below zero, inside, a fraction above the range, above.
RequestedValues ==
    {Num(-(Scale + Scale \div 2)), Num(-(Scale \div 2)), Num(50 * Scale + Scale \div 2),
     Num(RANGE_MAX * Scale + Scale - 1), Num(150 * Scale)}

WaitValues == {Num(5 * Scale), Num(-Scale)}

\* The arguments the framework can pass to a method.
MethodArgs(entity, method) ==
    CASE method = "async_set_cover_position" ->
           {Args(p, Missing, Missing) : p \in RequestedValues \cup {Missing}}
      [] method = "async_set_cover_tilt_position" ->
           {Args(Missing, t, Missing) : t \in RequestedValues \cup {Missing}}
      [] method = "async_set_cover_combined_position" ->
           {Args(p, t, w) : p \in RequestedValues,
                            t \in RequestedValues \cup {NoneV},
                            w \in {NoneV, Num(5 * Scale)}}
      [] method = "async_turn_on" /\ entity.kind = "siren" ->
           {Args(tone, Missing, d) : tone \in {Missing, StrV("OPEN")},
                                     d \in {Missing, Num(0), Num(2 * Scale)}}
      [] method = "async_set_on_time" -> {Args(Num(2 * Scale), Missing, Missing)}
      [] method = "async_set_native_value" ->
           {Args(Num(50 * Scale), Missing, Missing)}
      [] method = "async_set_value" -> {Args(StrV("Hello"), Missing, Missing)}
      [] method = "async_select_option" ->
           {Args(StrV(Options(entity)[i]), Missing, Missing) :
              i \in 1..Len(Options(entity))}
      [] OTHER -> {NoArgs}

AllMethodArgs == UNION {MethodArgs(e, m) : e \in WriteEntities, m \in AllWriteMethods}

\* The service data a caller can hand to set_cover_combined_position.
ServiceData ==
    {Args(p, t, w) : p \in RequestedValues,
                     t \in RequestedValues \cup {Missing},
                     w \in WaitValues \cup {Missing}}

\* vol.All(vol.Coerce(int), vol.Range(min=0, max=100))
PercentValid(v) == InRange(PyInt(v))

\* cv.positive_int
PositiveIntValid(v) == PyInt(v).n >= 0

\* The schema of set_cover_combined_position accepts the data.
SchemaValid(data) ==
    /\ PercentValid(data.a)
    /\ data.b # Missing => PercentValid(data.b)
    /\ data.c # Missing => PositiveIntValid(data.c)

\* The data as the schema hands it to the method.
SchemaCoerced(data) ==
    Args(PyInt(data.a),
         IF data.b # Missing THEN PyInt(data.b) ELSE Missing,
         IF data.c # Missing THEN PyInt(data.c) ELSE Missing)

\* What the library can raise.
Errors == {"BaseHomematicException", "ValueError"}

Frame(state, via, method, request, args, remaining) ==
    [state |-> state, via |-> via, method |-> method, request |-> request,
     args |-> args, remaining |-> remaining]

Result(state, error) == [state |-> state, error |-> error]

Issued(call, status, error) == [call |-> call, status |-> status, error |-> error]

\* The data point an entity wraps, as far as a write concerns it.
WriteDataPoints(entity) ==
    IF entity.kind \in SelectKinds
    THEN {DataPoint(valid, FALSE, Reading(v, NoneV, NoneV), NoneV) :
            valid \in BOOLEAN,
            v \in {NoneV} \cup {StrV(entity.values[i]) : i \in 1..Len(entity.values)}}
    ELSE {DataPoint(FALSE, FALSE, Reading(NoneV, NoneV, NoneV), NoneV)}

InitWrite ==
    /\ wr_entity \in WriteEntities
    /\ wr_dp \in WriteDataPoints(wr_entity)
    /\ wr_frame = Frame("idle", "none", "none", NoArgs, NoArgs, <<>>)
    /\ wr_calls = <<>>
    /\ wr_result = Result("none", "none")

IdleWrite ==
    /\ wr_entity = WriteEntity("lock", 1, <<>>)
    /\ wr_dp = DataPoint(FALSE, FALSE, Reading(NoneV, NoneV, NoneV), NoneV)
    /\ wr_frame = Frame("idle", "none", "none", NoArgs, NoArgs, <<>>)
    /\ wr_calls = <<>>
    /\ wr_result = Result("none", "none")

\* A method starts: it runs up to its first await, or to its end.
Started(via, method, request, args, calls) ==
    IF calls = <<>>
    THEN /\ wr_frame' = Frame("idle", via, method, request, args, <<>>)
         /\ wr_calls' = <<>>
         /\ wr_result' = Result("returned", "none")
    ELSE /\ wr_frame' = Frame("awaiting", via, method, request, args, Tail(calls))
         /\ wr_calls' = <<Issued(Head(calls), "pending", "none")>>
         /\ wr_result' = Result("running", "none")

\* The framework calls a write method of the entity.
InvokeWrite(method, args) ==
    /\ wr_frame.state = "idle"
    /\ method \in WriteMethods(wr_entity.kind)
    /\ args \in MethodArgs(wr_entity, method)
    /\ Started("method", method, args, args, MethodCalls(wr_entity, method, args))
    /\ UNCHANGED <<wr_entity, wr_dp>>
    /\ UNCHANGED not_write_vars

\* The entity service set_cover_combined_position is called on a cover: the
\* schema is applied and, if it accepts, the method runs.
CallService(data) ==
    /\ wr_frame.state = "idle"
    /\ wr_entity.kind \in CoverKinds
    /\ data \in ServiceData
    /\ IF SchemaValid(data)
       THEN Started("service", "async_set_cover_combined_position", data,
                    SchemaCoerced(data),
                    MethodCalls(wr_entity, "async_set_cover_combined_position",
                                SchemaCoerced(data)))
       ELSE /\ wr_frame' = Frame("idle", "service", "async_set_cover_combined_position",
                                 data, NoArgs, <<>>)
            /\ wr_calls' = <<>>
            /\ wr_result' = Result("raised", "Invalid")
    /\ UNCHANGED <<wr_entity, wr_dp>>
    /\ UNCHANGED not_write_vars

\* The awaited call returns: the method goes on to its next await or its end.
CallReturns ==
    /\ wr_frame.state = "awaiting"
    /\ LET n == Len(wr_calls)
           done == [wr_calls EXCEPT ![n].status = "done"]
       IN  IF wr_frame.remaining = <<>>
           THEN /\ wr_frame' = [wr_frame EXCEPT !.state = "idle"]
                /\ wr_calls' = done
                /\ wr_result' = Result("returned", "none")
           ELSE /\ wr_frame' = [wr_frame EXCEPT !.remaining = Tail(@)]
                /\ wr_calls' = Append(done, Issued(Head(wr_frame.remaining), "pending", "none"))
                /\ UNCHANGED wr_result
    /\ UNCHANGED <<wr_entity, wr_dp>>
    /\ UNCHANGED not_write_vars

\* Variant of OnFailure that makes the failed call once more.
OnFailureRetry(call, remaining, error) ==
    [raised |-> "none", calls |-> <<call>> \o remaining]

\* An exception of an awaited call inside a write method: no method has a
\* try block, so the exception leaves the method and no call follows.
OnFailure(call, remaining, error) == [raised |-> error, calls |-> <<>>]

\* The awaited call raises.
CallRaises(error) ==
    /\ wr_frame.state = "awaiting"
    /\ LET n == Len(wr_calls)
           failed == [wr_calls EXCEPT ![n].status = "raised", ![n].error = error]
           out == OnFailure(wr_calls[n].call, wr_frame.remaining, error)
       IN  IF out.calls = <<>>
           THEN /\ wr_frame' = [wr_frame EXCEPT !.state = "idle", !.remaining = <<>>]
                /\ wr_calls' = failed
                /\ wr_result' = Result("raised", out.raised)
           ELSE /\ wr_frame' = [wr_frame EXCEPT !.remaining = Tail(out.calls)]
                /\ wr_calls' = Append(failed, Issued(Head(out.calls), "pending", "none"))
                /\ UNCHANGED wr_result
    /\ UNCHANGED <<wr_entity, wr_dp>>
    /\ UNCHANGED not_write_vars

\* The library confirms the value a select entity has sent: the data point
\* becomes valid with that value.
ValueConfirmed ==
    /\ wr_entity.kind \in SelectKinds
    /\ wr_frame.state = "idle"
    /\ wr_result.state = "returned"
    /\ Len(wr_calls) = 1
    /\ wr_calls[1].status = "done"
    /\ wr_dp' = DataPoint(TRUE, FALSE, Reading(wr_calls[1].call.args.a, NoneV, NoneV), NoneV)
    /\ wr_calls' = [wr_calls EXCEPT ![1].status = "confirmed"]
    /\ UNCHANGED <<wr_entity, wr_frame, wr_result>>
    /\ UNCHANGED not_write_vars

NextWrite ==
    \/ \E method \in AllWriteMethods, args \in AllMethodArgs : InvokeWrite(method, args)
    \/ \E data \in ServiceData : CallService(data)
    \/ CallReturns
    \/ \E error \in Errors : CallRaises(error)
    \/ ValueConfirmed

-----------------------------------------------------------------------------
-----------------------------------------------------------------------------
\* The MQTTConsumer class: construction of consumer objects, and the
\* registrations made on them.

MaxConstructions == 3

\* A consumer object as __init__ leaves it:
\* self._centrals = {}; self._sub_state = None
FreshConsumer == [centrals |-> <<>>, sub_state |-> "None"]

\* The class as defined: _instance = None, no object constructed.
InitConsumer ==
    /\ mc_configured \in BOOLEAN
    /\ mc_instance = 0
    /\ mc_objects = <<>>
    /\ mc_returned = <<>>

IdleConsumer ==
    /\ mc_configured = FALSE
    /\ mc_instance = 0
    /\ mc_objects = <<>>
    /\ mc_returned = <<>>

\* __new__: the object the call returns. A new object takes the next
\* position in mc_objects.
\*   if (consumer := cls._instance) is None: return super().__new__(cls)
\*   return consumer
ConsumerNew(instance, objects) ==
    IF instance = 0 THEN Len(objects) + 1 ELSE instance

\* MQTTConsumer(hass): __new__ picks the object, and __init__ then runs on
\* the object __new__ returned. No statement assigns cls._instance.
ConstructConsumer ==
    /\ Len(mc_returned) < MaxConstructions
    /\ LET obj == ConsumerNew(mc_instance, mc_objects) IN
          /\ mc_objects' = IF obj > Len(mc_objects)
                           THEN Append(mc_objects, FreshConsumer)
                           ELSE [mc_objects EXCEPT ![obj] = FreshConsumer]
          /\ mc_returned' = Append(mc_returned, obj)
    /\ UNCHANGED <<mc_configured, mc_instance>>
    /\ UNCHANGED not_consumer_vars

\* subscribe(central) on object obj, run to its end.
ConsumerSubscribe(obj, c) ==
    /\ obj \in 1..Len(mc_objects)
    /\ LET o == mc_objects[obj]
           registered == \E i \in 1..Len(o.centrals) : o.centrals[i] = c IN
          mc_objects' =
              IF registered THEN mc_objects
              ELSE [mc_objects EXCEPT ![obj] =
                      [centrals |-> With(o.centrals, c),
                       sub_state |-> IF mc_configured THEN "Subscriptions"
                                     ELSE o.sub_state]]
    /\ UNCHANGED <<mc_configured, mc_instance, mc_returned>>
    /\ UNCHANGED not_consumer_vars

\* unsubscribe(central) on object obj. _unsubscribe leaves _sub_state as it is.
ConsumerUnsubscribe(obj, c) ==
    /\ obj \in 1..Len(mc_objects)
    /\ mc_objects' = [mc_objects EXCEPT ![obj].centrals = Without(@, c)]
    /\ UNCHANGED <<mc_configured, mc_instance, mc_returned>>
    /\ UNCHANGED not_consumer_vars

NextConsumer ==
    \/ ConstructConsumer
    \/ \E obj \in 1..MaxConstructions, c \in CentralNames : ConsumerSubscribe(obj, c)
    \/ \E obj \in 1..MaxConstructions, c \in CentralNames : ConsumerUnsubscribe(obj, c)

-----------------------------------------------------------------------------
\* The unique id an entity is given at construction.

\* const.DOMAIN
DOMAIN_NAME == "homematicip_local"

MaxConstructed == 2

\* Unique ids the library gives to channels and to data points and events.
ChannelUniqueIds == {"vcu0000001_1", "vcu0000002_1"}
DataPointUniqueIds == {"vcu0000001_1", "vcu0000001_1_state", "vcu0000002_1_press_short"}

LibraryChannels == [unique_id : ChannelUniqueIds]

\* A data point or an event of the library, with the channel it belongs to.
LibraryDataPoints == [unique_id : DataPointUniqueIds, channel : LibraryChannels]

\* The tuples of events of one channel handed to an event entity.
ChannelEventTuples ==
    {<<a>> : a \in LibraryDataPoints}
    \cup {pair \in LibraryDataPoints \X LibraryDataPoints :
            pair[1].channel = pair[2].channel /\ pair[1] # pair[2]}

IdentityKinds == {"generic", "hub", "update", "event"}

\* What an entity of a kind is constructed for.
Wrappable(kind) ==
    IF kind = "event" THEN ChannelEventTuples ELSE LibraryDataPoints

\* Variant of EventUniqueId that takes the primary event's unique id.
EventUniqueIdOfPrimaryEvent(data_point) ==
    DOMAIN_NAME \o "_" \o data_point[1].unique_id

\* self._attr_unique_id = f"{DOMAIN}_{data_point.unique_id}"
DataPointUniqueId(data_point) == DOMAIN_NAME \o "_" \o data_point.unique_id

\* self._hm_primary_event = data_point[0]
\* self._hm_channel = self._hm_primary_event.channel
\* self._attr_unique_id = f"{DOMAIN}_{self._hm_channel.unique_id}"
EventUniqueId(data_point) == DOMAIN_NAME \o "_" \o data_point[1].channel.unique_id

\* __init__ of the entity classes, as far as the unique id goes.
ConstructedEntity(kind, data_point) ==
    [kind |-> kind,
     wraps |-> data_point,
     unique_id |-> IF kind = "event" THEN EventUniqueId(data_point)
                   ELSE DataPointUniqueId(data_point),
     refreshed |-> FALSE]

InitIdentity == id_entities = <<>>

\* An entity is constructed by an add-callback.
ConstructEntity(kind, data_point) ==
    /\ Len(id_entities) < MaxConstructed
    /\ kind \in IdentityKinds
    /\ data_point \in Wrappable(kind)
    /\ id_entities' = Append(id_entities, ConstructedEntity(kind, data_point))
    /\ UNCHANGED not_identity_vars

\* Any method of a constructed entity other than __init__: none of them
\* assigns _attr_unique_id.
EntityRefreshed(i) ==
    /\ i \in 1..Len(id_entities)
    /\ id_entities' = [id_entities EXCEPT ![i].refreshed = ~@]
    /\ UNCHANGED not_identity_vars

NextIdentity ==
    \/ \E data_point \in LibraryDataPoints :
          \E kind \in IdentityKinds \ {"event"} : ConstructEntity(kind, data_point)
    \/ \E data_point \in ChannelEventTuples : ConstructEntity("event", data_point)
    \/ \E i \in 1..MaxConstructed : EntityRefreshed(i)

IdleIdentity == id_entities = <<>>

-----------------------------------------------------------------------------
\* The cover add-callback: which entity class a data point is wrapped in.

MaxCoverBatch == 2
MaxCoverRuns == 2

\* A data point of the library: its class, the classes it is an instance
\* of, and its operation mode (None where the class has none).
CoverDataPoint(cls, bases, operation_mode) ==
    [cls |-> cls, bases |-> bases, operation_mode |-> operation_mode]

OperationModes == {NoneV, StrV(""), StrV("SHUTTER"), StrV("VENETIAN_BLIND")}

\* The library's classes, each with its base classes.
CoverDataPoints ==
    {CoverDataPoint("CustomDpIpBlind",
                    {"CustomDpIpBlind", "CustomDpBlind", "CustomDpCover"}, m) :
        m \in OperationModes}
    \cup {CoverDataPoint("CustomDpBlind", {"CustomDpBlind", "CustomDpCover"}, NoneV),
          CoverDataPoint("CustomDpCover", {"CustomDpCover"}, NoneV),
          CoverDataPoint("CustomDpWindowDrive",
                         {"CustomDpWindowDrive", "CustomDpCover"}, NoneV),
          CoverDataPoint("CustomDpGarage", {"CustomDpGarage"}, NoneV),
          CoverDataPoint("CustomDpSwitch", {"CustomDpSwitch"}, NoneV)}

CoverBatches == UNION {[1..n -> CoverDataPoints] : n \in 0..MaxCoverBatch}

\* isinstance(data_point, cls)
IsInstance(data_point, cls) == cls \in data_point.bases

\* bool(x) of a string or None
Truthy(v) == v.t = "str" /\ v.s # ""

\* Variant of CoverEntity that tests the base class first.
CoverEntityBaseFirst(data_point) ==
    CASE IsInstance(data_point, "CustomDpCover") -> "HaHomematicCover"
      [] IsInstance(data_point, "CustomDpBlind") -> "HaHomematicBlind"
      [] IsInstance(data_point, "CustomDpIpBlind") ->
            IF Truthy(data_point.operation_mode)
                  /\ data_point.operation_mode = StrV("SHUTTER")
            THEN "HaHomematicCover" ELSE "HaHomematicBlind"
      [] IsInstance(data_point, "CustomDpGarage") -> "HaHomematicGarage"
      [] OTHER -> "none"

\* The if / elif chain of async_add_cover: the class of the entity appended
\* for a data point, "none" where no branch is taken.
CoverEntity(data_point) ==
    CASE IsInstance(data_point, "CustomDpIpBlind") ->
            IF Truthy(data_point.operation_mode)
                  /\ data_point.operation_mode = StrV("SHUTTER")
            THEN "HaHomematicCover" ELSE "HaHomematicBlind"
      [] ~IsInstance(data_point, "CustomDpIpBlind")
            /\ IsInstance(data_point, "CustomDpBlind") -> "HaHomematicBlind"
      [] ~IsInstance(data_point, "CustomDpIpBlind")
            /\ ~IsInstance(data_point, "CustomDpBlind")
            /\ IsInstance(data_point, "CustomDpCover") -> "HaHomematicCover"
      [] ~IsInstance(data_point, "CustomDpIpBlind")
            /\ ~IsInstance(data_point, "CustomDpBlind")
            /\ ~IsInstance(data_point, "CustomDpCover")
            /\ IsInstance(data_point, "CustomDpGarage") -> "HaHomematicGarage"
      [] OTHER -> "none"

\* for data_point in data_points: ... entities.append(...)
RECURSIVE CoverEntities(_)
CoverEntities(data_points) ==
    IF data_points = <<>> THEN <<>>
    ELSE LET cls == CoverEntity(Head(data_points))
             rest == CoverEntities(Tail(data_points)) IN
         IF cls = "none" THEN rest
         ELSE <<[class |-> cls, data_point |-> Head(data_points)]>> \o rest

InitCover ==
    /\ cv_data_points = <<>>
    /\ cv_sink = <<>>
    /\ cv_runs = 0

\* async_add_cover(data_points):
\*   if entities: async_add_entities(entities)
AsyncAddCover(data_points) ==
    /\ cv_runs < MaxCoverRuns
    /\ cv_data_points' = data_points
    /\ cv_sink' = IF CoverEntities(data_points) # <<>>
                  THEN <<CoverEntities(data_points)>> ELSE <<>>
    /\ cv_runs' = cv_runs + 1
    /\ UNCHANGED not_cover_vars

NextCover == \E data_points \in CoverBatches : AsyncAddCover(data_points)

IdleCover ==
    /\ cv_data_points = <<>>
    /\ cv_sink = <<>>
    /\ cv_runs = 0

-----------------------------------------------------------------------------
\* One event entity: its declared event types and the events it triggers.

MaxTriggers == 2

\* Parameter names of the library's events.
EventParameters == {"PRESS_SHORT", "PRESS_LONG", "press_contact"}

\* The tuples of channel events an event entity is constructed for.
ChannelEvents ==
    {events \in UNION {[1..n -> EventParameters] : n \in 1..NumChannelEvents} :
        \A i, j \in 1..Len(events) : i # j => events[i] # events[j]}

\* self._attr_event_types = [event.parameter.lower() for event in data_point]
EventTypes(data_point) == [i \in 1..Len(data_point) |-> Lower(data_point[i])]

\* The parameter keyword the library calls the data-point-updated callback
\* of an event with. The library chooses its spelling; the adapter does not.
CallbackParameters(parameter) == {parameter, Lower(parameter)}

InitEvent ==
    /\ ev_channel_events \in ChannelEvents
    /\ ev_event_types = EventTypes(ev_channel_events)
    /\ ev_enabled \in BOOLEAN
    /\ ev_triggered = <<>>
    /\ ev_last = "none"

\* _async_event_changed(**kwargs), called for channel event i:
\*   if self.enabled: self._trigger_event(event_type=kwargs["parameter"])
EventChanged(i, parameter) ==
    /\ Len(ev_triggered) < MaxTriggers
    /\ i \in 1..Len(ev_channel_events)
    /\ parameter \in CallbackParameters(ev_channel_events[i])
    /\ ev_triggered' = IF ev_enabled THEN Append(ev_triggered, parameter)
                       ELSE ev_triggered
    /\ ev_last' = IF ev_enabled THEN "fired" ELSE "not_fired"
    /\ UNCHANGED <<ev_channel_events, ev_event_types, ev_enabled>>
    /\ UNCHANGED not_event_vars

NextEvent ==
    \E i \in 1..NumChannelEvents :
       \E parameter \in EventParameters \cup {Lower(p) : p \in EventParameters} :
          EventChanged(i, parameter)

IdleEvent ==
    /\ ev_channel_events = <<>>
    /\ ev_event_types = <<>>
    /\ ev_enabled = FALSE
    /\ ev_triggered = <<>>
    /\ ev_last = "none"

-----------------------------------------------------------------------------
\* The parts added to the model, at rest.

IdleAux == IdleConsumer /\ IdleIdentity /\ IdleCover /\ IdleEvent

IdleExt == IdleLifecycle /\ IdleSetup /\ IdleWrite /\ IdleAux

IdleBase == IdleEntity /\ IdleMqtt /\ IdleRemoval

-----------------------------------------------------------------------------
\* The specifications: one per part of the adapter, the other parts at rest.

InitRestore == InitEntity /\ IdleMqtt /\ IdleRemoval /\ IdleExt
SpecRestore == InitRestore /\ [][NextEntity]_vars

InitMqttOnly == IdleEntity /\ InitMqtt /\ IdleRemoval /\ IdleExt
SpecMqtt == InitMqttOnly /\ [][NextMqtt]_vars
SpecMqttSeq == InitMqttOnly /\ [][NextMqttSeq]_vars

InitRemovalOnly == IdleEntity /\ IdleMqtt /\ InitRemoval /\ IdleExt
SpecRemoval == InitRemovalOnly /\ [][NextRemoval]_vars

InitLifecycleOnly == IdleBase /\ InitLifecycle /\ IdleSetup /\ IdleWrite /\ IdleAux
SpecLifecycle == InitLifecycleOnly /\ [][NextLifecycle]_vars

InitSetupOnly == IdleBase /\ IdleLifecycle /\ InitSetup /\ IdleWrite /\ IdleAux
SpecSetup == InitSetupOnly /\ [][NextSetup]_vars

InitWriteOnly == IdleBase /\ IdleLifecycle /\ IdleSetup /\ InitWrite /\ IdleAux
SpecWrite == InitWriteOnly /\ [][NextWrite]_vars

IdleCore == IdleBase /\ IdleLifecycle /\ IdleSetup /\ IdleWrite

InitConsumerOnly == IdleCore /\ InitConsumer /\ IdleIdentity /\ IdleCover /\ IdleEvent
SpecConsumer == InitConsumerOnly /\ [][NextConsumer]_vars

InitIdentityOnly == IdleCore /\ IdleConsumer /\ InitIdentity /\ IdleCover /\ IdleEvent
SpecIdentity == InitIdentityOnly /\ [][NextIdentity]_vars

InitCoverOnly == IdleCore /\ IdleConsumer /\ IdleIdentity /\ InitCover /\ IdleEvent
SpecCover == InitCoverOnly /\ [][NextCover]_vars

InitEventOnly == IdleCore /\ IdleConsumer /\ IdleIdentity /\ IdleCover /\ InitEvent
SpecEvent == InitEventOnly /\ [][NextEvent]_vars

-----------------------------------------------------------------------------
\* Properties of the restore-capable entities (SpecRestore).

\* The live value under the documented transforms: "is True" for switch and
\* siren, lower-casing for select and for translated enum sensors, the
\* multiplier for sensor and number.
LiveState(k, cfg, d) ==
    [state |->
        CASE k \in {"switch", "siren"} -> BoolV(d.value.t = "bool" /\ d.value.b)
          [] k = "select" -> LowerV(d.value)
          [] k = "sensor" /\ d.value.t = "int" -> IntV(d.value.n * cfg.multiplier)
          [] k = "sensor" /\ cfg.has_translation_key -> LowerV(d.value)
          [] k = "number" /\ d.value.t = "int" -> FloatV(d.value.n * cfg.multiplier)
          [] OTHER -> d.value,
     position |-> d.position,
     tilt |-> d.tilt]

\* The value the persisted state st denotes for an entity of kind k.
RestoredValue(k, st) ==
    [state |->
        CASE k \in {"binary_sensor", "switch", "siren"} -> BoolV(st.state = "on")
          [] k = "lock" -> BoolV(st.state = "locked")
          [] k = "cover" -> BoolV(st.state = "closed")
          [] k \in {"select", "text"} -> StrV(st.state)
          [] OTHER -> st.native_value,
     position |-> st.position,
     tilt |-> st.tilt]

RestoredNativeValues(k) == {st.native_value : st \in PersistedStates(k)}

\* The framework holds a last state that is neither unknown nor unavailable.
UsablePersisted == persisted.held /\ persisted \notin NotUsable

\* The restored state shows in the attributes or in the exposed state.
UsesRestored ==
    \/ Attribute = RESTORED
    \/ Exposed # ExposedState(ent_kind, ent_cfg, dp, NoState, NoneV)

\* C1: while the data point is valid, the exposed state is the live value
\* under the documented transforms, whatever restored state the entity holds.
C1_ValidExposesLive ==
    dp.is_valid =>
        \A rs \in PersistedStates(ent_kind), rnv \in RestoredNativeValues(ent_kind) :
            ExposedState(ent_kind, ent_cfg, dp, rs, rnv)
                = LiveState(ent_kind, ent_cfg, dp)

\* An added entity with a valid data point holds a usable restored state that
\* denotes another value than the live one.
C1_Witness ==
    /\ phase = "added"
    /\ dp.is_valid
    /\ restored_state.held
    /\ restored_state \notin NotUsable
    /\ RestoredValue(ent_kind, restored_state) # LiveState(ent_kind, ent_cfg, dp)
    /\ Exposed = LiveState(ent_kind, ent_cfg, dp)

\* C2 (as claimed): once the data point has been valid after the entity was
\* added, the restored state is never used again for the exposed state or the
\* attributes, also when the data point is invalid again.
C2_RestoredNeverUsedAfterValid ==
    (phase = "added" /\ valid_once) => ~UsesRestored

-----------------------------------------------------------------------------
\* Properties of the MQTT consumer (SpecMqttSeq, SpecMqtt).

\* C4 (as claimed): with MQTT configured and no call in progress, the topic
\* subscription is active exactly when at least one control unit is
\* registered.
C4_ActiveIffRegistered ==
    (mqtt_configured /\ sub_pending = {})
        => (broker_active <=> Len(centrals) > 0)

\* C5 (as claimed): with MQTT configured, a subscription is issued only by a
\* call that finds no control unit registered, and an unsubscription is
\* issued by exactly the calls that take the registry from one control unit
\* to none.
C5_IssuedOnlyOnTransitions ==
    [][(mqtt_configured /\ last_call' # last_call)
        => /\ last_call'.issued = "subscribe" => Len(centrals) = 0
           /\ last_call'.issued = "unsubscribe"
                <=> (Len(centrals) = 1 /\ Len(centrals') = 0)]_vars

\* The control units that were sent an event for the last message.
EventsFor(c) == {i \in 1..Len(path_events) : path_events[i].central = c}

\* C6: after a message whose payload is an object with a field v that is not
\* null, every registered control unit was sent exactly one event, no other
\* control unit was sent any, and every event carries the topic of the
\* message unchanged and the value v.
C6_ForwardsToEveryCentral ==
    (/\ last_call.op = "message"
     /\ mqtt_msg.payload.kind = "object"
     /\ mqtt_msg.payload.has_v
     /\ mqtt_msg.payload.v # NoneV)
        => /\ \A c \in CentralNames :
                Cardinality(EventsFor(c)) = IF Registered(c) THEN 1 ELSE 0
           /\ Len(path_events) = Len(centrals)
           /\ \A i \in 1..Len(path_events) :
                /\ path_events[i].state_path = mqtt_msg.topic
                /\ path_events[i].value = mqtt_msg.payload.v
           /\ last_call.error = "none"

\* A message with the value 0, false or "" was forwarded to every one of
\* NumCentrals registered control units.
C6_Witness ==
    /\ last_call.op = "message"
    /\ mqtt_msg.payload.kind = "object"
    /\ mqtt_msg.payload.has_v
    /\ mqtt_msg.payload.v \in {IntV(0), BoolV(FALSE), StrV("")}
    /\ Len(centrals) = NumCentrals
    /\ Len(path_events) = NumCentrals
    /\ \A i \in 1..Len(path_events) : path_events[i].value = mqtt_msg.payload.v

\* C7: the receipt of a message whose payload is an object without the field
\* v, or with v null, sends no event, raises no error, and leaves the
\* registry of control units and the subscription as they were.
C7_DropsMissingValue ==
    [][(/\ last_call'.op = "message"
        /\ mqtt_msg'.payload.kind = "object"
        /\ (~mqtt_msg'.payload.has_v \/ mqtt_msg'.payload.v = NoneV))
        => /\ path_events' = <<>>
           /\ last_call'.error = "none"
           /\ UNCHANGED <<centrals, sub_state, sub_pending, broker_active>>]_vars

\* A message without the field v was dropped with a control unit registered
\* and the subscription active.
C7_Witness ==
    /\ last_call.op = "message"
    /\ mqtt_msg.payload.kind = "object"
    /\ ~mqtt_msg.payload.has_v
    /\ Len(centrals) > 0
    /\ broker_active
    /\ path_events = <<>>
    /\ last_call.error = "none"

-----------------------------------------------------------------------------
\* Properties of the device removal (SpecRemoval).

\* The step is a device-removed callback delivered to the entity e: one
\* registered callback is used up and the entity is not removed by the step.
IsCallbackStep(e) ==
    /\ hm_callbacks'[e] = hm_callbacks[e] - 1
    /\ platform_state'[e] = platform_state[e]

\* C8: remove-device is called at most once for a device, and exactly once as
\* soon as one of its entities has received the device-removed callback.
C8_DeviceRemovedOnce ==
    \A d \in Devices :
        /\ dr_remove_calls[d] <= 1
        /\ (\E e \in Entities : e.device = d /\ cb_received[e])
              => (dr_remove_calls[d] = 1 /\ d \notin device_registry)

\* Two entities of dev1 have received the callback, and all callbacks of dev1
\* are used up, with one call of remove-device.
C8_Witness ==
    /\ \A e \in Entities : e.device = "dev1" => cb_received[e]
    /\ Cardinality({e \in Entities : e.device = "dev1"}) >= 2
    /\ \E e \in Entities :
          e.device = "dev1" /\ CallbacksOf(e) > 1 /\ hm_callbacks[e] = 0
             /\ platform_state[e] = "added"
    /\ dr_remove_calls["dev1"] = 1

\* C9: every device-removed callback schedules one forced removal of its
\* entity, so that an entity that has received the callback is removed or has
\* its removal scheduled.
C9_CallbackSchedulesRemoval ==
    /\ [](\A e \in Entities :
            cb_received[e] => (platform_state[e] = "removed" \/ remove_tasks[e] > 0))
    /\ [][\A e \in Entities :
            IsCallbackStep(e) => remove_tasks'[e] = remove_tasks[e] + 1]_vars

\* An entity has received the callback with no registry entry and with its
\* device gone from the device registry, and its removal is scheduled.
C9_Witness ==
    \E e \in Entities :
        /\ KindOf(e) # "hub"
        /\ cb_received[e]
        /\ ~registry_entry[e].held
        /\ e.device \notin device_registry
        /\ dr_remove_calls[e.device] = 1
        /\ remove_tasks[e] > 0
        /\ platform_state[e] = "added"

\* C10 (as claimed): a device leaves the device registry only in a step
\* before which no other entity of the entity registry is bound to it.
C10_DeviceKeptWhileReferenced ==
    [][\A d \in Devices :
        (d \in device_registry /\ d \notin device_registry')
            => Cardinality({x \in entity_registry : x.device = d}) <= 1]_vars

\* C10 (amended): a device-removed callback of an entity that has a registry
\* entry naming a device of the device registry deletes that device, whatever
\* other entities are bound to it, and the entity registry entries of all its
\* entities go with it; a device leaves the device registry in no other step.
C10_DeviceRemovedByFirstCallback ==
    [][/\ \A e \in Entities :
            (/\ KindOf(e) # "hub"
             /\ IsCallbackStep(e)
             /\ registry_entry[e].held
             /\ registry_entry[e].device_id \in device_registry)
            => /\ registry_entry[e].device_id \notin device_registry'
               /\ \A x \in entity_registry' : x.device # registry_entry[e].device_id
       /\ \A d \in Devices :
            (d \in device_registry /\ d \notin device_registry')
            => \E e \in Entities :
                  /\ IsCallbackStep(e)
                  /\ registry_entry[e].held
                  /\ registry_entry[e].device_id = d]_vars

\* dev1 is gone from the device registry after one callback while another of
\* its entities is still added and has its callbacks registered.
C10_Witness ==
    /\ "dev1" \notin device_registry
    /\ dr_remove_calls["dev1"] = 1
    /\ \E e, x \in Entities :
          /\ e # x
          /\ e.device = "dev1" /\ x.device = "dev1"
          /\ cb_received[e]
          /\ ~cb_received[x]
          /\ platform_state[x] = "added"
          /\ hm_callbacks[x] = CallbacksOf(x)

\* C11: a device-removed callback of an entity that has no registry entry, no
\* device id, or a device id the device registry does not hold raises no
\* error and leaves the device registry as it was, with no call of
\* remove-device.
C11_AbsentIsNoError ==
    [][\A e \in Entities :
        (/\ KindOf(e) # "hub"
         /\ IsCallbackStep(e)
         /\ \/ ~registry_entry[e].held
            \/ registry_entry[e].device_id = ""
            \/ registry_entry[e].device_id \notin device_registry)
        => /\ last_handler'.entity = e
           /\ last_handler'.error = "none"
           /\ device_registry' = device_registry
           /\ dr_remove_calls' = dr_remove_calls]_vars

\* An entity handled the callback with a registry entry naming a device that
\* the device registry no longer holds.
C11_Witness ==
    /\ last_handler.branch = "device_absent"
    /\ last_handler.error = "none"
    /\ registry_entry[last_handler.entity].held
    /\ last_handler.entity.device \notin device_registry
    /\ dr_remove_calls[last_handler.entity.device] = 1

-----------------------------------------------------------------------------
\* Properties of the entity callbacks (SpecLifecycle).

\* C12: a data-point-updated callback delivered to an enabled entity
\* schedules exactly one state refresh; delivered to a disabled entity it
\* schedules none and triggers no event.
C12_RefreshOnlyWhenEnabled ==
    [][lc_last'.op = "updated"
        => IF lc_enabled
           THEN lc_refreshes' = lc_refreshes + 1
           ELSE lc_refreshes' = lc_refreshes /\ lc_events' = lc_events]_vars

\* An event entity handled one update while enabled and then one while
\* disabled.
C12_Witness ==
    /\ lc_kind = "event"
    /\ lc_last.op = "updated"
    /\ ~lc_enabled
    /\ lc_refreshes = 1
    /\ lc_events = 1

\* C13: a generic entity that is being added or is added has registered one
\* data-point-updated and one device-removed callback and then started one
\* initial load; both callbacks are registered while the load is suspended.
C13_CallbacksBeforeLoad ==
    (lc_kind = "generic" /\ lc_phase \in {"loading", "added"})
        => /\ lc_calls = <<"updated", "removed", "load">>
           /\ \A c \in CallbackKinds : lc_callbacks[c] = 1
           /\ Len(lc_unregister) = 2

\* An update was delivered to a generic entity, and its refresh scheduled,
\* while the initial load was suspended.
C13_Witness ==
    /\ lc_kind = "generic"
    /\ lc_phase = "loading"
    /\ lc_last.op = "updated"
    /\ lc_refreshes = 1

\* C14: after async_will_remove_from_hass every callback registered at
\* addition is unregistered (2 * NumChannelEvents for an event entity), and
\* no refresh, event or removal is scheduled any more.
C14_NoCallbackAfterRemoval ==
    /\ [](lc_phase = "removed"
            => /\ \A c \in CallbackKinds :
                    lc_callbacks[c] = 0 /\ CountOf(lc_unregister, c) = CountOf(lc_calls, c)
               /\ lc_kind = "event" => Len(lc_unregister) = 2 * NumChannelEvents)
    /\ [][lc_phase = "removed"
            => UNCHANGED <<lc_refreshes, lc_events, lc_removals>>]_vars

\* An event entity that had handled updates and a device removal is removed,
\* with all its callbacks unregistered.
C14_Witness ==
    /\ lc_kind = "event"
    /\ lc_phase = "removed"
    /\ lc_refreshes > 0
    /\ lc_removals > 0
    /\ Len(lc_unregister) = 2 * NumChannelEvents
    /\ \A c \in CallbackKinds : lc_callbacks[c] = 0

-----------------------------------------------------------------------------
\* Properties of the platform setup (SpecSetup).

\* The positions of the steps of kind op for the category cat in the log.
LogSteps(op, cat) == {i \in 1..Len(su_log) : su_log[i] = SetupStep(op, cat)}

\* For every category of the platform, the signal is connected, then the
\* disconnect is registered, and every drain comes after that.
ConnectedBeforeDrain ==
    \A i \in 1..Len(Categories(su_platform)) :
        LET cat == Categories(su_platform)[i]
        IN /\ Cardinality(LogSteps("connect", cat)) = 1
           /\ Cardinality(LogSteps("on_unload", cat)) = 1
           /\ \A c \in LogSteps("connect", cat), u \in LogSteps("on_unload", cat) :
                /\ c < u
                /\ \A d \in 1..Len(su_log) : su_log[d].op = "drain" => u < d

\* A signal of a category of the platform sent between setup and unload runs
\* the add-callback of the category; a signal sent before setup or after unload runs nothing.
SignalReachesWhileSetUp ==
    (/\ su_last'.op = "signal"
     /\ \E i \in 1..Len(Categories(su_platform)) :
           su_last'.cat = Categories(su_platform)[i])
        => /\ su_last'.delivered <=> su_phase = "set_up"
           /\ su_phase # "set_up" => UNCHANGED <<su_add_calls, su_sink>>
           /\ su_phase = "set_up" => Len(su_add_calls') = Len(su_add_calls) + 1

\* C15 (as claimed): after async_setup_entry, every category was connected
\* and its disconnect registered before any drain, and exactly one drain was
\* made per category; signals reach the add-callback exactly between setup
\* and unload.
C15_OneDrainPerCategory ==
    /\ [](su_phase \in {"set_up", "unloaded"}
            => /\ ConnectedBeforeDrain
               /\ \A i \in 1..Len(Categories(su_platform)) :
                    Cardinality(LogSteps("drain", Categories(su_platform)[i])) = 1)
    /\ [][SignalReachesWhileSetUp]_vars

\* C15 (amended): the same, with one drain per category on every platform
\* but the event platform, which makes one drain per event type.
C15_DrainsAfterConnect ==
    /\ [](su_phase \in {"set_up", "unloaded"}
            => /\ ConnectedBeforeDrain
               /\ \A i \in 1..Len(Categories(su_platform)) :
                    Cardinality(LogSteps("drain", Categories(su_platform)[i]))
                        = IF su_platform = "event" THEN NumEventTypes ELSE 1
               /\ su_connected =
                    IF su_phase = "set_up"
                    THEN {Categories(su_platform)[i] : i \in 1..Len(Categories(su_platform))}
                    ELSE {})
    /\ [][SignalReachesWhileSetUp]_vars

\* On a platform with a hub category, a signal was delivered between setup
\* and unload, and a signal after the unload was not.
C15_Witness ==
    /\ su_platform \in HubPlatforms
    /\ su_phase = "unloaded"
    /\ su_last.op = "signal"
    /\ su_last.cat.hub
    /\ ~su_last.delivered
    /\ Len(su_add_calls) > Len(DrainSteps(su_platform))

\* The batches handed to the add-callbacks that hold a data point.
NonEmptyAddCalls == SelectSeq(su_add_calls, LAMBDA c : Len(c.batch) > 0)

\* C16: the sink was called once for every batch with n > 0 data points, in
\* order, with n entities that wrap the data points of the batch in batch
\* order; it was not called for an empty batch.
C16_OneSinkCallPerBatch ==
    /\ Len(su_sink) = Len(NonEmptyAddCalls)
    /\ \A j \in 1..Len(su_sink) :
          /\ j <= Len(NonEmptyAddCalls)
          /\ Len(su_sink[j]) = Len(NonEmptyAddCalls[j].batch)
          /\ \A i \in 1..Len(su_sink[j]) :
                i <= Len(NonEmptyAddCalls[j].batch)
                   /\ su_sink[j][i].data_point = NonEmptyAddCalls[j].batch[i]

\* An add-callback was run with an empty batch, and a signal with two data
\* points led to one sink call with two entities.
C16_Witness ==
    /\ \E j \in 1..Len(su_add_calls) : su_add_calls[j].batch = <<>>
    /\ su_last.op = "signal"
    /\ su_last.delivered
    /\ Len(su_sink) > 0
    /\ Len(su_sink[Len(su_sink)]) = 2
    /\ Len(su_add_calls[Len(su_add_calls)].batch) = 2
    /\ Len(su_sink) < Len(su_add_calls)

-----------------------------------------------------------------------------
\* Properties of the entity write methods (SpecWrite).

Abs(x) == IF x < 0 THEN -x ELSE x

\* The indices of the calls made so far that satisfy a test on target and name.
CallsTo(target, name) ==
    {i \in 1..Len(wr_calls) :
       wr_calls[i].call.target = target /\ wr_calls[i].call.name = name}

\* The combined-position method has been entered and has not been refused
\* by the service schema.
CombinedEntered ==
    /\ wr_frame.method = "async_set_cover_combined_position"
    /\ wr_result.state # "none"
    /\ wr_result # Result("raised", "Invalid")

\* C17: once async_set_cover_combined_position has been entered, the first
\* call is the data point's set_position with the position, the tilt position
\* and the collector, it is the only set_position call, and the collector's
\* send_data with the wait_for_callback value is issued only after that call
\* has completed; nothing is sent before the position call.
C17_SetPositionBeforeSend ==
    CombinedEntered =>
        /\ Len(wr_calls) \in {1, 2}
        /\ wr_calls[1].call =
             DpCall("set_position", wr_frame.args.a, OrNone(wr_frame.args.b), BoolV(TRUE))
        /\ Cardinality(CallsTo("data_point", "set_position")) = 1
        /\ \A i \in 1..Len(wr_calls) : wr_calls[i].call.target = "collector" => i = 2
        /\ Len(wr_calls) = 2 =>
             /\ wr_calls[1].status = "done"
             /\ wr_calls[2].call = CollectorCall("send_data", OrNone(wr_frame.args.c))
        /\ wr_result.state = "returned" =>
             Len(wr_calls) = 2 /\ wr_calls[2].status = "done"

C17_Witness ==
    /\ CombinedEntered
    /\ wr_frame.args.a = Num(50 * Scale)
    /\ wr_frame.args.b = Num(RANGE_MAX * Scale)
    /\ wr_frame.args.c = Num(5 * Scale)
    /\ wr_result.state = "returned"
    /\ Len(wr_calls) = 2

\* The position and tilt values handed to set_position so far.
ForwardedValues ==
    UNION {{wr_calls[i].call.args.a, wr_calls[i].call.args.b} \ {Missing, NoneV} :
             i \in CallsTo("data_point", "set_position")}

\* The position and tilt values the caller asked for.
RequestedOf(request) == {request.a, request.b} \ {Missing, NoneV}

\* f is r without its fractional part.
IsTruncationOf(f, r) ==
    /\ f.n % Scale = 0
    /\ Abs(f.n) <= Abs(r.n)
    /\ Abs(r.n - f.n) < Scale

\* C18 as stated: every position or tilt position handed to set_position by
\* the three cover write methods lies within 0..100, whatever was asked for.
C18_ForwardedWithinRange ==
    \A f \in ForwardedValues : InRange(f)

\* C18, amended: no method bounds the value.  async_set_cover_position and
\* async_set_cover_tilt_position hand on int(value), the combined-position
\* method hands on its arguments as they are; the schema of the
\* combined-position service takes int(value) and refuses a call with a
\* value outside 0..100, so that only through the service the values handed
\* on lie within 0..100.
C18_ForwardedUnclamped ==
    /\ wr_frame.method \in {"async_set_cover_position", "async_set_cover_tilt_position"} =>
         /\ \A f \in ForwardedValues :
              \E r \in RequestedOf(wr_frame.request) : IsTruncationOf(f, r)
         /\ RequestedOf(wr_frame.request) # {} /\ wr_result.state # "none" =>
              ForwardedValues # {}
    /\ wr_frame.method = "async_set_cover_combined_position" /\ wr_frame.via = "method" =>
         /\ ForwardedValues \subseteq RequestedOf(wr_frame.request)
         /\ wr_result.state # "none" => wr_frame.request.a \in ForwardedValues
    /\ wr_frame.via = "service" =>
         /\ \A f \in ForwardedValues :
              InRange(f) /\ \E r \in RequestedOf(wr_frame.request) : IsTruncationOf(f, r)
         /\ (\E r \in RequestedOf(wr_frame.request) :
               \A f \in {Num(n * Scale) : n \in RANGE_MIN..RANGE_MAX} :
                 ~IsTruncationOf(f, r)) =>
              wr_calls = <<>> /\ wr_result = Result("raised", "Invalid")

C18_Witness ==
    /\ wr_frame.method = "async_set_cover_position"
    /\ wr_frame.request.a = Num(150 * Scale)
    /\ wr_result.state = "returned"
    /\ Num(150 * Scale) \in ForwardedValues

\* The strings of the model that are upper-case.
UpperCaseStrings == {"OPEN", "CLOSED", "AUTO_1", "HELLO"}
LowerCaseStrings == {"open", "closed", "auto_1", "hello"}

\* A lower-case string paired with each string that differs from it in case only.
CasePairs ==
    {<<"open", "open">>, <<"open", "OPEN">>,
     <<"closed", "closed">>, <<"closed", "Closed">>, <<"closed", "CLOSED">>,
     <<"auto_1", "auto_1">>, <<"auto_1", "AUTO_1">>}

\* The option an invocation of async_select_option was given.
SelectedOption == wr_frame.args.a.s

\* C19: for a device select entity every option is lower-case and is the
\* lower-cased form of the data-point value at the same place; current_option
\* is the lower-cased live value when the data point is valid;
\* async_select_option(o) sends an upper-case string that lower-cases to o
\* and that is the data-point value itself wherever that value is upper-case;
\* once that value is confirmed, current_option is o.
C19_CasingRoundTrip ==
    wr_entity.kind = "select" =>
        LET values == wr_entity.values
            options == SelectOptions(values)
        IN  /\ Len(options) = Len(values)
            /\ \A i \in 1..Len(values) :
                 /\ options[i] \in LowerCaseStrings
                 /\ <<options[i], values[i]>> \in CasePairs
            /\ wr_dp.is_valid /\ wr_dp.value # NoneV =>
                 \E o \in LowerCaseStrings :
                   /\ <<o, wr_dp.value.s>> \in CasePairs
                   /\ SelectCurrentOption(wr_dp, NoState) = StrV(o)
            /\ wr_frame.method = "async_select_option" /\ wr_calls # <<>> =>
                 LET sent == wr_calls[1].call.args.a
                 IN  /\ Len(wr_calls) = 1
                     /\ wr_calls[1].call.name = "send_value"
                     /\ sent.t = "str"
                     /\ sent.s \in UpperCaseStrings
                     /\ <<SelectedOption, sent.s>> \in CasePairs
                     /\ \E i \in 1..Len(values) : options[i] = SelectedOption
                     /\ \A i \in 1..Len(values) :
                          options[i] = SelectedOption /\ values[i] \in UpperCaseStrings =>
                            sent.s = values[i]
                     /\ wr_calls[1].status = "confirmed" =>
                          SelectCurrentOption(wr_dp, NoState) = StrV(SelectedOption)

C19_Witness ==
    /\ wr_entity.kind = "select"
    /\ wr_entity.values = <<"OPEN", "CLOSED">>
    /\ wr_frame.method = "async_select_option"
    /\ SelectedOption = "closed"
    /\ Len(wr_calls) = 1
    /\ wr_calls[1].status = "confirmed"
    /\ wr_calls[1].call.args.a = StrV("CLOSED")
    /\ SelectCurrentOption(wr_dp, NoState) = StrV("closed")

\* The data-point method each write method stands for.
Corresponding(kind, method) ==
    CASE method = "async_press" -> "press"
      [] method = "async_lock" -> "lock"
      [] method = "async_unlock" -> "unlock"
      [] method = "async_open" -> "open"
      [] method = "async_open_cover" -> "open"
      [] method = "async_close_cover" -> "close"
      [] method = "async_stop_cover" -> "stop"
      [] method = "async_open_cover_tilt" -> "open_tilt"
      [] method = "async_close_cover_tilt" -> "close_tilt"
      [] method = "async_stop_cover_tilt" -> "stop_tilt"
      [] method = "async_turn_on" /\ kind # "sysvar_switch" -> "turn_on"
      [] method = "async_turn_off" /\ kind # "sysvar_switch" -> "turn_off"
      [] method = "async_install" -> "update_firmware"
      [] kind \in {"sysvar_switch", "sysvar_number", "sysvar_text", "sysvar_select"} ->
           "send_variable"
      [] OTHER -> "send_value"

\* press, lock/unlock/open, open/close/stop of a cover and of its tilt,
\* turn_on/turn_off, the methods that send a value or a variable, and the
\* firmware install.
SingleCallMethods ==
    AllWriteMethods \ {"async_set_cover_position", "async_set_cover_tilt_position",
                       "async_set_cover_combined_position", "async_set_on_time",
                       "async_update"}

\* C20: an invocation of such a write method makes exactly one call, to the
\* data-point method it stands for; when that call raises, the invocation
\* ends with the same error and no further call is made.
C20_OneCallFailurePropagates ==
    wr_frame.method \in SingleCallMethods /\ wr_result.state # "none" =>
        /\ Len(wr_calls) = 1
        /\ wr_calls[1].call.target = "data_point"
        /\ wr_calls[1].call.name = Corresponding(wr_entity.kind, wr_frame.method)
        /\ wr_result.state = "running" <=> wr_calls[1].status = "pending"
        /\ wr_result.state = "returned" <=> wr_calls[1].status \in {"done", "confirmed"}
        /\ wr_result.state = "raised" <=> wr_calls[1].status = "raised"
        /\ wr_calls[1].status = "raised" =>
             /\ wr_calls[1].error \in Errors
             /\ wr_result.error = wr_calls[1].error

C20_Witness ==
    /\ wr_frame.method = "async_lock"
    /\ wr_frame.state = "idle"
    /\ Len(wr_calls) = 1
    /\ wr_calls[1].call.name = "lock"
    /\ wr_calls[1].status = "raised"
    /\ wr_result = Result("raised", "ValueError")

-----------------------------------------------------------------------------
\* Properties of the value_state attribute (SpecRestore).

\* The entity holds a restored state: the last state for the entities that
\* restore a state, the stored native value for sensor and number.
HoldsRestored ==
    IF ent_kind \in NativeRestoreKinds
    THEN restored_native_value # NoneV
    ELSE restored_state.held

\* C22: value_state is "valid" iff the data point is valid and not uncertain,
\* "uncertain" iff it is valid and uncertain, "restored" iff it is invalid and
\* the entity holds a restored state, "not valid" iff it is invalid and the
\* entity holds none; "restored" is never reported for a valid data point.
C22_ValueStateByValidity ==
    /\ Attribute = VALID <=> (dp.is_valid /\ ~dp.state_uncertain)
    /\ Attribute = UNCERTAIN <=> (dp.is_valid /\ dp.state_uncertain)
    /\ Attribute = RESTORED <=> (~dp.is_valid /\ HoldsRestored)
    /\ Attribute = NOT_VALID <=> (~dp.is_valid /\ ~HoldsRestored)
    /\ dp.is_valid => Attribute # RESTORED

\* The data point of an added entity was valid, is invalid again, and the
\* attribute reports the restored state the entity holds.
C22_Witness ==
    /\ phase = "added"
    /\ valid_once
    /\ ~dp.is_valid
    /\ restored_state.held
    /\ Attribute = RESTORED

\* C27 (as claimed): whenever value_state is "restored", the exposed state is
\* the restored value: it is not None, and it is not the library default
\* standing in for a persisted "unknown" or "unavailable".
C27_RestoredExposesRestoredValue ==
    Attribute = RESTORED =>
        /\ Exposed.state # NoneV
        /\ ~(restored_state \in NotUsable /\ Exposed.state = dp.default)

\* C28 (as claimed): with an invalid data point and no usable restored state
\* (none held, or "unknown"/"unavailable"), an added binary sensor, switch,
\* lock, siren, cover, select or text entity exposes None.
C28_NoUsableRestoredExposesNone ==
    (/\ phase = "added"
     /\ ent_kind \in StateRestoreKinds
     /\ ~dp.is_valid
     /\ ~(restored_state.held /\ restored_state \notin NotUsable))
        => Exposed.state = NoneV

-----------------------------------------------------------------------------
\* Further properties of the MQTT consumer (SpecMqtt).

\* C25 (as claimed): under any interleaving of subscribe and unsubscribe
\* calls, with MQTT configured and no subscribe call suspended, a registered
\* control unit has an active topic subscription.
C25_RegisteredHasActiveSubscription ==
    (mqtt_configured /\ sub_pending = {} /\ Len(centrals) > 0) => broker_active

\* C26: while MQTT is not configured, the subscription state stays unset and
\* no subscription is made or pending; subscribe registers its control unit,
\* unsubscribe drops its control unit and keeps the others, and neither
\* issues a subscription or an unsubscription or raises.
C26_UnconfiguredOnlyRegisters ==
    /\ [](~mqtt_configured =>
            sub_state = "None" /\ ~broker_active /\ sub_pending = {})
    /\ [][~mqtt_configured =>
            /\ last_call'.issued = "none" /\ last_call'.error = "none"
            /\ last_call'.op = "subscribe" =>
                 /\ centrals' = With(centrals, last_call'.central)
                 /\ \E i \in 1..Len(centrals') : centrals'[i] = last_call'.central
            /\ last_call'.op = "unsubscribe" =>
                 /\ centrals' = Without(centrals, last_call'.central)
                 /\ \A i \in 1..Len(centrals') : centrals'[i] # last_call'.central]_vars

\* Without MQTT configured two control units were registered and one of them
\* was dropped again.
C26_Witness ==
    /\ ~mqtt_configured
    /\ last_call.op = "unsubscribe"
    /\ last_call.issued = "none"
    /\ Len(centrals) = 1
    /\ centrals[1] # last_call.central
    /\ sub_state = "None"

-----------------------------------------------------------------------------
\* Properties of the construction of the MQTT consumer (SpecConsumer).

\* C24: MQTTConsumer is a process-wide singleton: every construction after
\* the first returns the object the first construction returned, and the
\* control units registered at that object and its subscription state are
\* after the construction what they were before it.
C24_SecondConstructionSameInstance ==
    [][(Len(mc_returned) >= 1 /\ Len(mc_returned') = Len(mc_returned) + 1)
          => /\ mc_returned'[Len(mc_returned')] = mc_returned[1]
             /\ mc_objects'[mc_returned[1]] = mc_objects[mc_returned[1]]]_vars

-----------------------------------------------------------------------------
\* Properties of the unique ids (SpecIdentity).

\* The library unique id an entity's unique id is to be built from: the
\* channel's for an event entity, the data point's otherwise.
LibraryUniqueIdOf(e) ==
    IF e.kind = "event" THEN e.wraps[1].channel.unique_id ELSE e.wraps.unique_id

\* C21: every entity's unique id is the domain name, an underscore and the
\* library unique id of what it wraps (the channel's for an event entity);
\* entities wrapping objects with different library unique ids have
\* different unique ids; and no step changes the unique id of a constructed
\* entity.
C21_UniqueIdFromLibraryId ==
    /\ [](\A i \in 1..Len(id_entities) :
            /\ id_entities[i].unique_id
                  = "homematicip_local_" \o LibraryUniqueIdOf(id_entities[i])
            /\ \A j \in 1..Len(id_entities) :
                  LibraryUniqueIdOf(id_entities[i]) # LibraryUniqueIdOf(id_entities[j])
                     => id_entities[i].unique_id # id_entities[j].unique_id)
    /\ [][\A i \in 1..Len(id_entities) :
            id_entities'[i].unique_id = id_entities[i].unique_id]_vars

\* An event entity whose primary event's unique id differs from its
\* channel's and a data point entity were constructed, and the event entity
\* has been refreshed since.
C21_Witness ==
    /\ Len(id_entities) = 2
    /\ id_entities[1].kind = "event"
    /\ id_entities[1].wraps[1].unique_id # id_entities[1].wraps[1].channel.unique_id
    /\ id_entities[1].refreshed
    /\ id_entities[2].kind = "generic"
    /\ id_entities[2].unique_id # id_entities[1].unique_id

-----------------------------------------------------------------------------
\* Properties of the cover add-callback (SpecCover).

\* The entity class the selection is to yield for a data point, by the
\* data point's own class.
SelectedCoverClass(data_point) ==
    CASE data_point.cls = "CustomDpIpBlind"
            /\ data_point.operation_mode = StrV("SHUTTER") -> "HaHomematicCover"
      [] data_point.cls = "CustomDpIpBlind"
            /\ data_point.operation_mode # StrV("SHUTTER") -> "HaHomematicBlind"
      [] data_point.cls = "CustomDpBlind" -> "HaHomematicBlind"
      [] data_point.cls \in {"CustomDpCover", "CustomDpWindowDrive"} -> "HaHomematicCover"
      [] data_point.cls = "CustomDpGarage" -> "HaHomematicGarage"
      [] OTHER -> "none"

\* The data points of the last run that are to get an entity, in order.
SelectedCoverDataPoints ==
    SelectSeq(cv_data_points, LAMBDA d : SelectedCoverClass(d) # "none")

\* The entities the last run handed to async_add_entities.
CoverEntitiesAdded == IF cv_sink = <<>> THEN <<>> ELSE cv_sink[1]

\* C23: the cover add-callback yields at most one entity per data point, and
\* the entity's class is a function of the data point's type: a plain cover
\* for an IP blind in operation mode "SHUTTER", a blind for any other IP
\* blind and any blind, a plain cover for any other cover, a garage for a
\* garage, and no entity for a data point of none of these types; the most
\* specific type decides.
C23_CoverSelection ==
    /\ Len(cv_sink) <= 1
    /\ Len(CoverEntitiesAdded) <= Len(cv_data_points)
    /\ Len(CoverEntitiesAdded) = Len(SelectedCoverDataPoints)
    /\ \A i \in 1..Len(CoverEntitiesAdded) :
          i <= Len(SelectedCoverDataPoints)
             /\ CoverEntitiesAdded[i].data_point = SelectedCoverDataPoints[i]
             /\ CoverEntitiesAdded[i].class
                   = SelectedCoverClass(SelectedCoverDataPoints[i])

\* A run was given a data point that is no cover and an IP blind in
\* operation mode "SHUTTER", and added one plain cover entity for the latter.
C23_Witness ==
    /\ cv_runs > 0
    /\ Len(cv_data_points) = 2
    /\ cv_data_points[1].cls = "CustomDpSwitch"
    /\ cv_data_points[2].cls = "CustomDpIpBlind"
    /\ cv_data_points[2].operation_mode = StrV("SHUTTER")
    /\ Len(cv_sink) = 1
    /\ Len(cv_sink[1]) = 1
    /\ cv_sink[1][1].class = "HaHomematicCover"
    /\ cv_sink[1][1].data_point = cv_data_points[2]

-----------------------------------------------------------------------------
\* Properties of the removal notification of a hub entity (SpecRemoval).

\* C29: a removal notification handled by a hub entity schedules one forced
\* removal of that entity and removes at most that entity's own entry from
\* the entity registry; the device registry (the control unit's device
\* included) and every other entity are left as they were.
C29_HubRemovalFrame ==
    [][(last_handler'.branch # "none" /\ KindOf(last_handler'.entity) = "hub")
          => LET e == last_handler'.entity IN
             /\ remove_tasks'[e] = remove_tasks[e] + 1
             /\ entity_registry' \in {entity_registry, entity_registry \ {e}}
             /\ device_registry' = device_registry
             /\ HubDevice \in device_registry => HubDevice \in device_registry'
             /\ dr_remove_calls' = dr_remove_calls
             /\ \A x \in Entities \ {e} :
                   /\ remove_tasks'[x] = remove_tasks[x]
                   /\ registry_tasks'[x] = registry_tasks[x]
                   /\ registry_entry'[x] = registry_entry[x]
                   /\ platform_state'[x] = platform_state[x]
                   /\ hm_callbacks'[x] = hm_callbacks[x]]_vars

\* The hub entity has handled its removal notification: its removal is
\* scheduled, its entry has left the entity registry, the control unit's
\* device and the entries of the other entities are still there.
C29_Witness ==
    /\ last_handler.branch = "hub"
    /\ last_handler.entity = Entity(HubDevice, 1)
    /\ remove_tasks[Entity(HubDevice, 1)] = 1
    /\ Entity(HubDevice, 1) \notin entity_registry
    /\ HubDevice \in device_registry
    /\ entity_registry = Entities \ {Entity(HubDevice, 1)}

-----------------------------------------------------------------------------
\* Properties of the events an event entity triggers (SpecEvent).

=============================================================================
